---- MODULE Spec2Model ----
(***************************************************************************)
(* FinWise: budgets, budget alerts and bills over the MySQL tables of      *)
(* models/db.go.  Every handler of the models package is a sequence of SQL *)
(* statements on the shared connection pool (models.DB); a request is a    *)
(* process that runs the statements of one handler, and requests of        *)
(* different processes interleave between statements.  Consecutive reads   *)
(* of one handler that precede its first write are taken in one step, and  *)
(* the read that builds the response is taken with the write it follows.   *)
(* Amounts are DECIMAL(10,2) values counted in whole units; a percentage   *)
(* is kept as the exact fraction num/den the float division approximates.  *)
(***************************************************************************)
EXTENDS Integers, Sequences, FiniteSets, TLC

VARIABLES categories, bills, budgets, alerts, nextBudgetId, nextAlertId,
          nextBillId, nextCategoryId, now, pc, req, resp,
          clock, ipRequestCount, ipLastRequest, accepted, sent,
          users, nextUserId

vars == <<categories, bills, budgets, alerts, nextBudgetId, nextAlertId,
          nextBillId, nextCategoryId, now, pc, req, resp,
          clock, ipRequestCount, ipLastRequest, accepted, sent,
          users, nextUserId>>

\* the limiter of the RateLimiter filter, the wall clock it reads, and the requests
\* that reached it and that it let through in the last second
front == <<clock, ipRequestCount, ipLastRequest, accepted, sent>>

tables == <<users, categories, bills, budgets, alerts>>

-----------------------------------------------------------------------------
(* Bounds of the model *)

NumUsers == 2
NumProcs == 2
MaxBudgets == 2
MaxAlerts == 2
MaxBills == 2
MaxCategories == 1
NumMonths == 3
MaxClock == 3
MaxNewUsers == 2

\* the clock counts half seconds: time.Second
Second == 2
ClientIPs == {"10.0.0.1", "10.0.0.2"}

Users == 1..NumUsers
Procs == 1..NumProcs
Months == 1..NumMonths

-----------------------------------------------------------------------------
(* Calendar: the months of one non-leap year; a date is [m |-> month, d |-> day] *)

DaysIn(m) == IF m = 2 THEN 28 ELSE IF m \in {4, 6, 9, 11} THEN 30 ELSE 31

RECURSIVE DaysBefore(_)
DaysBefore(m) == IF m <= 1 THEN 0 ELSE DaysBefore(m - 1) + DaysIn(m - 1)

\* Format("2006-01-02") of a time, as a day number that orders like the string
FormatDate(date) == DaysBefore(date.m) + date.d

\* time.Parse("2006-01", s): the first day of the month; 0 stands for a
\* string that does not parse
BadMonth == 0
ParseMonthOk(month) == month \in 1..12
ParseMonth(month) == [m |-> month, d |-> 1]

\* startDate.AddDate(0, 1, 0).Add(-time.Second): the last second of the month,
\* which formats as the last day of the month
MonthEndNotLast(start) == [m |-> start.m + 1, d |-> 1]
MonthEnd(start) == [m |-> start.m, d |-> DaysIn(start.m)]

\* The driver sends a time.Time in the connection's location (loc=Local, the
\* container's TZ); a UTC midnight stays on its day for an offset of 0..23 hours
\* and falls on the previous day for a negative one.  DATE keeps the day.
TZOffsetHours == 8
PrevDay(date) ==
    IF date.d > 1 THEN [m |-> date.m, d |-> date.d - 1]
    ELSE [m |-> date.m - 1, d |-> DaysIn(date.m - 1)]
StoreDate(date) == IF TZOffsetHours < 0 THEN PrevDay(date) ELSE date

\* DATE_FORMAT(month, '%Y-%m')
DateFormatMonth(date) == date.m

-----------------------------------------------------------------------------
(* Tables *)

\* the default categories CreateUser inserts for every user (name given by icon)
defaultCategories ==
    << [name |-> "food", type |-> "expense"],
       [name |-> "shopping", type |-> "expense"],
       [name |-> "transport", type |-> "expense"],
       [name |-> "home", type |-> "expense"],
       [name |-> "salary", type |-> "income"],
       [name |-> "bonus", type |-> "income"],
       [name |-> "investment", type |-> "income"] >>

NumDefault == Len(defaultCategories)

\* id of the i-th default category of user u (users registered in id order)
DefaultCategoryId(u, i) == NumDefault * (u - 1) + i

\* the default categories the users of the model have kept (DeleteCategory removes
\* an unreferenced one): food, shopping and salary
KeptDefaults == {1, 2, 5}

InitCategories ==
    { [id |-> DefaultCategoryId(u, i), user |-> u,
       name |-> defaultCategories[i].name, type |-> defaultCategories[i].type]
      : u \in Users, i \in KeptDefaults }

\* the users registered before the first request of a behaviour
RegisteredNames == <<"ann", "bob", "cat", "dan">>
InitUsers ==
    { [id |-> u, username |-> RegisteredNames[u], email |-> RegisteredNames[u] \o "@x.io"]
      : u \in Users }

\* category_id NULL is 0, as in the Budget struct
NullCategory == 0

RowsById(table, id) == { r \in table : r.id = id }
HasId(table, id) == RowsById(table, id) # {}
RowById(table, id) == CHOOSE r \in table : r.id = id

-----------------------------------------------------------------------------
(* Queries *)

RECURSIVE SumAmount(_)
SumAmount(S) ==
    IF S = {} THEN 0
    ELSE LET r == CHOOSE x \in S : TRUE IN r.amount + SumAmount(S \ {r})

Between(x, lo, hi) == lo <= x /\ x <= hi
\* SELECT COALESCE(SUM(amount), 0) FROM bills WHERE user_id = ? [AND category_id = ?]
\*   AND type = 'expense' AND date BETWEEN ? AND ?
UsedAmountQuery(userID, categoryID, startDate, endDate) ==
    SumAmount({ b \in bills :
        /\ b.user = userID
        /\ (categoryID > 0 => b.cat = categoryID)
        /\ b.type = "expense"
        /\ Between(FormatDate(b.date), FormatDate(startDate), FormatDate(endDate)) })

\* budget.Percentage: (UsedAmount / Amount) * 100 when Amount > 0, else the zero value
PercentageUnguarded(amount, used) == [num |-> used * 100, den |-> amount]
Percentage(amount, used) ==
    IF amount > 0 THEN [num |-> used * 100, den |-> amount] ELSE [num |-> 0, den |-> 1]

\* the Budget struct GetBudget and GetBudgets fill from a budgets row; startDate is
\* budget.Month in GetBudget and the parsed month parameter in GetBudgets
BudgetUsage(b, userID, startDate) ==
    LET endDate == MonthEnd(startDate)
        used == UsedAmountQuery(userID, b.cat, startDate, endDate)
    IN [ID |-> b.id, UserID |-> b.user, CategoryID |-> b.cat, Amount |-> b.amount,
        Month |-> DateFormatMonth(b.month), UsedAmount |-> used,
        Percentage |-> Percentage(b.amount, used)]

BudgetView(b, userID) == BudgetUsage(b, userID, ParseMonth(DateFormatMonth(b.month)))

\* SELECT ... FROM budgets b ... WHERE b.id = ? AND b.user_id = ?
BudgetFound(id, userID) == \E b \in budgets : b.id = id /\ b.user = userID
BudgetRow(id, userID) == CHOOSE b \in budgets : b.id = id /\ b.user = userID

\* SELECT EXISTS(SELECT 1 FROM categories WHERE id = ? AND user_id = ?), type
\*   FROM categories WHERE id = ?
CategoryRowExists(id) == HasId(categories, id)
CategoryOwned(id, userID) == \E c \in categories : c.id = id /\ c.user = userID
CategoryType(id) == RowById(categories, id).type

\* SELECT COUNT(*) FROM budgets WHERE user_id = ? AND category_id = ? (or IS NULL)
\*   AND DATE_FORMAT(month, '%Y-%m') = ? [AND id != ?]
CountBudgetsInSlotEqNull(userID, categoryID, month, excludeID) ==
    Cardinality({ b \in budgets :
        /\ b.user = userID
        /\ categoryID # NullCategory
        /\ b.cat = categoryID
        /\ DateFormatMonth(b.month) = month
        /\ b.id # excludeID })
CountBudgetsInSlot(userID, categoryID, month, excludeID) ==
    Cardinality({ b \in budgets :
        /\ b.user = userID
        /\ b.cat = categoryID
        /\ DateFormatMonth(b.month) = month
        /\ b.id # excludeID })

\* UNIQUE KEY unique_budget (user_id, category_id, month): a NULL category_id
\* never equals another NULL, so rows without a category never collide
UniqueBudgetViolated(row) ==
    /\ row.cat # NullCategory
    /\ \E b \in budgets :
        /\ b.id # row.id
        /\ b.user = row.user /\ b.cat = row.cat /\ b.month = row.month

-----------------------------------------------------------------------------
(* Requests *)

NoReq == [op |-> "none"]
NoResp == [op |-> "none", status |-> "none"]

Idle(p) == pc[p] = "idle"

\* the handler returns to the controller, which writes the response: resp is
\* the response written by the latest step (NoResp when that step wrote none)
Return(p, status, calls, data, args) ==
    /\ pc' = [pc EXCEPT ![p] = "idle"]
    /\ req' = [req EXCEPT ![p] = NoReq]
    /\ resp' = [proc |-> p, op |-> args.op, status |-> status, calls |-> calls,
                data |-> data, args |-> args]
    /\ UNCHANGED front

\* the handler goes on to its next statement
Goto(p, label, r) ==
    /\ pc' = [pc EXCEPT ![p] = label]
    /\ req' = [req EXCEPT ![p] = r]
    /\ resp' = NoResp
    /\ UNCHANGED front

NoData == <<>>

\* the tables initTables creates, with the users registered and their default
\* categories; no request is running
Init ==
    /\ users = InitUsers
    /\ nextUserId = NumUsers + 1
    /\ categories = InitCategories
    /\ bills = {}
    /\ budgets = {}
    /\ alerts = {}
    /\ nextBudgetId = 1
    /\ nextAlertId = 1
    /\ nextBillId = 1
    /\ nextCategoryId = NumDefault * NumUsers + 1
    /\ now = 1
    /\ pc = [p \in Procs |-> "idle"]
    /\ req = [p \in Procs |-> NoReq]
    /\ resp = NoResp
    /\ clock = 0
    /\ ipRequestCount = <<>>
    /\ ipLastRequest = <<>>
    /\ accepted = [ip \in ClientIPs |-> [i \in 1..Second |-> 0]]
    /\ sent = [ip \in ClientIPs |-> [i \in 1..Second |-> 0]]

-----------------------------------------------------------------------------
(* DeleteBudget's transaction: the rows its statements deleted stay locked   *)
(* and stay visible to every other connection until the commit               *)

\* DELETE FROM budget_alerts WHERE budget_id = ? ran in an open transaction:
\* the alerts of the budget and the gap of its budget_id index entry are locked
TxHoldsAlertsOf(budgetID) ==
    \E q \in Procs : pc[q] \in {"db_exec_budget", "db_commit"} /\ req[q].id = budgetID

\* DELETE FROM budgets WHERE id = ? AND user_id = ? ran in an open transaction
TxHoldsBudget(budgetID) ==
    \E q \in Procs : pc[q] = "db_commit" /\ req[q].id = budgetID

-----------------------------------------------------------------------------
(* CreateBudget *)

\* requests that passed their checks and have their INSERT still to run
Pending(label) == Cardinality({ q \in Procs : pc[q] = label })

CreateBudgetCheck(p, userID, categoryID, amount, month) ==
    LET r == [op |-> "CreateBudget", user |-> userID, cat |-> categoryID,
              amount |-> amount, month |-> month, calls |-> 0]
        count == CountBudgetsInSlot(userID, categoryID, month, 0)
        room == nextBudgetId + Pending("cb_insert") <= MaxBudgets
    IN
    /\ Idle(p)
    /\ UNCHANGED <<tables, nextBudgetId, nextAlertId, nextBillId, nextCategoryId, now, nextUserId>>
    /\ IF ~ParseMonthOk(month) THEN Return(p, "validation", 0, NoData, r)
       ELSE IF categoryID > 0 THEN
            IF ~CategoryRowExists(categoryID) THEN Return(p, "db_error", 1, NoData, r)
            ELSE IF ~CategoryOwned(categoryID, userID) THEN Return(p, "validation", 1, NoData, r)
            ELSE IF CategoryType(categoryID) # "expense" THEN Return(p, "validation", 1, NoData, r)
            ELSE IF count > 0 THEN Return(p, "conflict", 2, NoData, r)
            ELSE room /\ Goto(p, "cb_insert", [r EXCEPT !.calls = 2])
       ELSE IF count > 0 THEN Return(p, "conflict", 1, NoData, r)
            ELSE room /\ Goto(p, "cb_insert", [r EXCEPT !.calls = 1])

\* INSERT INTO budgets ..., LastInsertId, GetBudget(budgetID, userID)
CreateBudgetInsert(p) ==
    LET r == req[p]
        row == [id |-> nextBudgetId, user |-> r.user, cat |-> r.cat,
                amount |-> r.amount, month |-> StoreDate(ParseMonth(r.month))]
    IN
    /\ pc[p] = "cb_insert"
    /\ UNCHANGED <<users, categories, bills, alerts, nextAlertId, nextBillId, nextCategoryId,
                   now, nextUserId>>
    /\ IF r.cat > 0 /\ ~CategoryRowExists(r.cat)
       THEN /\ UNCHANGED <<budgets, nextBudgetId>>
            /\ Return(p, "db_error", r.calls + 1, NoData, r)
       ELSE IF UniqueBudgetViolated(row)
       THEN /\ UNCHANGED <<budgets, nextBudgetId>>
            /\ Return(p, "dup_key", r.calls + 1, NoData, r)
       ELSE /\ budgets' = budgets \cup {row}
            /\ nextBudgetId' = nextBudgetId + 1
            /\ Return(p, "ok", r.calls + 3, BudgetView(row, r.user), r)

-----------------------------------------------------------------------------
(* UpdateBudget *)

UpdateBudgetCheck(p, id, userID, categoryID, amount, month) ==
    LET r == [op |-> "UpdateBudget", id |-> id, user |-> userID, cat |-> categoryID,
              amount |-> amount, month |-> month, calls |-> 0]
        budget == BudgetRow(id, userID)
        count == CountBudgetsInSlot(userID, categoryID, month, id)
        Finish(calls) ==
            IF ParseMonthOk(month) THEN Goto(p, "ub_update", [r EXCEPT !.calls = calls])
            ELSE Return(p, "validation", calls, NoData, r)
    IN
    /\ Idle(p)
    /\ UNCHANGED <<tables, nextBudgetId, nextAlertId, nextBillId, nextCategoryId, now, nextUserId>>
    /\ IF ~BudgetFound(id, userID) THEN Return(p, "not_found", 1, NoData, r)
       ELSE IF budget.cat # categoryID THEN
            IF categoryID > 0 THEN
                IF ~CategoryRowExists(categoryID) THEN Return(p, "db_error", 3, NoData, r)
                ELSE IF ~CategoryOwned(categoryID, userID) THEN Return(p, "validation", 3, NoData, r)
                ELSE IF CategoryType(categoryID) # "expense" THEN Return(p, "validation", 3, NoData, r)
                ELSE IF count > 0 THEN Return(p, "conflict", 4, NoData, r)
                ELSE Finish(4)
            ELSE IF count > 0 THEN Return(p, "conflict", 3, NoData, r)
                 ELSE Finish(3)
       ELSE Finish(2)

\* UPDATE budgets SET category_id = ?, amount = ?, month = ? WHERE id = ? AND user_id = ?,
\* then GetBudget(id, userID)
UpdateBudgetExec(p) ==
    LET r == req[p]
        old == BudgetRow(r.id, r.user)
        row == [id |-> r.id, user |-> r.user, cat |-> r.cat,
                amount |-> r.amount, month |-> StoreDate(ParseMonth(r.month))]
    IN
    /\ pc[p] = "ub_update"
    /\ ~TxHoldsBudget(r.id)
    /\ UNCHANGED <<users, categories, bills, alerts, nextBudgetId, nextAlertId, nextBillId,
                   nextCategoryId, now, nextUserId>>
    /\ IF ~BudgetFound(r.id, r.user)
       THEN /\ UNCHANGED budgets
            /\ Return(p, "not_found", r.calls + 2, NoData, r)
       ELSE IF r.cat > 0 /\ ~CategoryRowExists(r.cat)
       THEN /\ UNCHANGED budgets
            /\ Return(p, "db_error", r.calls + 1, NoData, r)
       ELSE IF UniqueBudgetViolated(row)
       THEN /\ UNCHANGED budgets
            /\ Return(p, "dup_key", r.calls + 1, NoData, r)
       ELSE /\ budgets' = (budgets \ {old}) \cup {row}
            /\ Return(p, "ok", r.calls + 3, BudgetView(row, r.user), r)

-----------------------------------------------------------------------------
(* DeleteBudget *)

\* GetBudget(id, userID)
DeleteBudgetCheck(p, id, userID) ==
    LET r == [op |-> "DeleteBudget", id |-> id, user |-> userID, calls |-> 0] IN
    /\ Idle(p)
    /\ UNCHANGED <<tables, nextBudgetId, nextAlertId, nextBillId, nextCategoryId, now, nextUserId>>
    /\ IF ~BudgetFound(id, userID) THEN Return(p, "not_found", 1, NoData, r)
       ELSE Goto(p, "db_begin", [r EXCEPT !.calls = 2])

\* DB.Begin()
DeleteBudgetBegin(p, ok) ==
    LET r == req[p] IN
    /\ pc[p] = "db_begin"
    /\ UNCHANGED <<tables, nextBudgetId, nextAlertId, nextBillId, nextCategoryId, now, nextUserId>>
    /\ IF ok THEN Goto(p, "db_exec_alerts", [r EXCEPT !.calls = r.calls + 1])
       ELSE Return(p, "db_error", r.calls + 1, NoData, r)

\* tx.Exec("DELETE FROM budget_alerts WHERE budget_id = ?"); on an error tx.Rollback()
DeleteBudgetExecAlertsNoTx(p, ok) ==
    LET r == req[p] IN
    /\ pc[p] = "db_exec_alerts"
    /\ ~TxHoldsAlertsOf(r.id)
    /\ UNCHANGED <<users, categories, bills, budgets, nextBudgetId, nextAlertId, nextBillId,
                   nextCategoryId, now, nextUserId>>
    /\ IF ok THEN /\ alerts' = { a \in alerts : a.budget # r.id }
                  /\ Goto(p, "db_exec_budget", [r EXCEPT !.calls = r.calls + 1])
       ELSE /\ UNCHANGED alerts
            /\ Return(p, "db_error", r.calls + 2, NoData, r)
DeleteBudgetExecAlerts(p, ok) ==
    LET r == req[p] IN
    /\ pc[p] = "db_exec_alerts"
    /\ ~TxHoldsAlertsOf(r.id)
    /\ UNCHANGED <<tables, nextBudgetId, nextAlertId, nextBillId, nextCategoryId, now, nextUserId>>
    /\ IF ok THEN Goto(p, "db_exec_budget", [r EXCEPT !.calls = r.calls + 1])
       ELSE Return(p, "db_error", r.calls + 2, NoData, r)

\* tx.Exec("DELETE FROM budgets WHERE id = ? AND user_id = ?"); on an error tx.Rollback()
DeleteBudgetExecBudget(p, ok) ==
    LET r == req[p] IN
    /\ pc[p] = "db_exec_budget"
    /\ ~TxHoldsBudget(r.id)
    /\ UNCHANGED <<tables, nextBudgetId, nextAlertId, nextBillId, nextCategoryId, now, nextUserId>>
    /\ IF ok THEN Goto(p, "db_commit", [r EXCEPT !.calls = r.calls + 1])
       ELSE Return(p, "db_error", r.calls + 2, NoData, r)

\* tx.Commit(): both deletes take effect at once; the foreign key of
\* budget_alerts (ON DELETE CASCADE) removes with the budget row every alert of it
DeleteBudgetCommit(p, ok) ==
    LET r == req[p] IN
    /\ pc[p] = "db_commit"
    /\ UNCHANGED <<users, categories, bills, nextBudgetId, nextAlertId, nextBillId,
                   nextCategoryId, now, nextUserId>>
    /\ IF ok THEN /\ budgets' = { b \in budgets : ~(b.id = r.id /\ b.user = r.user) }
                  /\ alerts' = { a \in alerts : a.budget # r.id }
                  /\ Return(p, "ok", r.calls + 1, NoData, r)
       ELSE /\ UNCHANGED <<budgets, alerts>>
            /\ Return(p, "db_error", r.calls + 1, NoData, r)

-----------------------------------------------------------------------------
(* Budget alerts *)

ThresholdInRangeFromZero(threshold) == ~(threshold < 0 \/ threshold > 100)
ThresholdInRange(threshold) == ~(threshold < 1 \/ threshold > 100)

\* SELECT COUNT(*) FROM budget_alerts WHERE budget_id = ? AND threshold = ? [AND id != ?]
CountAlertsWithThreshold(budgetID, threshold, excludeID) ==
    Cardinality({ a \in alerts :
        a.budget = budgetID /\ a.threshold = threshold /\ a.id # excludeID })

\* SELECT EXISTS(SELECT 1 FROM budget_alerts WHERE id = ? AND user_id = ?)
AlertFound(id, userID) == \E a \in alerts : a.id = id /\ a.user = userID
AlertRow(id, userID) == CHOOSE a \in alerts : a.id = id /\ a.user = userID

\* a budget_alerts table without its foreign key to budgets
BudgetRowUnchecked(id) == TRUE

\* FOREIGN KEY (budget_id) REFERENCES budgets(id)
BudgetRowExists(id) == HasId(budgets, id)

CreateBudgetAlertCheck(p, userID, budgetID, threshold, isActive) ==
    LET r == [op |-> "CreateBudgetAlert", user |-> userID, budget |-> budgetID,
              threshold |-> threshold, active |-> isActive, calls |-> 0]
        room == nextAlertId + Pending("ca_insert") <= MaxAlerts
    IN
    /\ Idle(p)
    /\ UNCHANGED <<tables, nextBudgetId, nextAlertId, nextBillId, nextCategoryId, now, nextUserId>>
    /\ IF ~BudgetFound(budgetID, userID) THEN Return(p, "not_found", 1, NoData, r)
       ELSE IF ~ThresholdInRange(threshold) THEN Return(p, "validation", 2, NoData, r)
       ELSE IF CountAlertsWithThreshold(budgetID, threshold, 0) > 0
            THEN Return(p, "conflict", 3, NoData, r)
       ELSE room /\ Goto(p, "ca_insert", [r EXCEPT !.calls = 3])

\* INSERT INTO budget_alerts (user_id, budget_id, threshold, is_active)
CreateBudgetAlertInsert(p) ==
    LET r == req[p]
        row == [id |-> nextAlertId, user |-> r.user, budget |-> r.budget,
                threshold |-> r.threshold, active |-> r.active]
    IN
    /\ pc[p] = "ca_insert"
    /\ ~TxHoldsAlertsOf(r.budget)
    /\ UNCHANGED <<users, categories, bills, budgets, nextBudgetId, nextBillId, nextCategoryId,
                   now, nextUserId>>
    /\ IF ~BudgetRowExists(r.budget)
       THEN /\ UNCHANGED <<alerts, nextAlertId>>
            /\ Return(p, "db_error", r.calls + 1, NoData, r)
       ELSE /\ alerts' = alerts \cup {row}
            /\ nextAlertId' = nextAlertId + 1
            /\ Return(p, "ok", r.calls + 1, row, r)

UpdateBudgetAlertCheck(p, id, userID, budgetID, threshold, isActive) ==
    LET r == [op |-> "UpdateBudgetAlert", id |-> id, user |-> userID, budget |-> budgetID,
              threshold |-> threshold, active |-> isActive, calls |-> 0]
    IN
    /\ Idle(p)
    /\ UNCHANGED <<tables, nextBudgetId, nextAlertId, nextBillId, nextCategoryId, now, nextUserId>>
    /\ IF ~AlertFound(id, userID) THEN Return(p, "not_found", 1, NoData, r)
       ELSE IF ~BudgetFound(budgetID, userID) THEN Return(p, "not_found", 2, NoData, r)
       ELSE IF ~ThresholdInRange(threshold) THEN Return(p, "validation", 3, NoData, r)
       ELSE IF CountAlertsWithThreshold(budgetID, threshold, id) > 0
            THEN Return(p, "conflict", 4, NoData, r)
       ELSE Goto(p, "ua_update", [r EXCEPT !.calls = 4])

\* UPDATE budget_alerts SET budget_id = ?, threshold = ?, is_active = ?
\*   WHERE id = ? AND user_id = ?, then SELECT ... WHERE id = ?
UpdateBudgetAlertExec(p) ==
    LET r == req[p]
        old == AlertRow(r.id, r.user)
        row == [id |-> r.id, user |-> r.user, budget |-> r.budget,
                threshold |-> r.threshold, active |-> r.active]
    IN
    /\ pc[p] = "ua_update"
    /\ ~TxHoldsAlertsOf(r.budget)
    /\ AlertFound(r.id, r.user) => ~TxHoldsAlertsOf(old.budget)
    /\ UNCHANGED <<users, categories, bills, budgets, nextBudgetId, nextAlertId, nextBillId,
                   nextCategoryId, now, nextUserId>>
    /\ IF ~AlertFound(r.id, r.user)
       THEN /\ UNCHANGED alerts
            /\ Return(p, "db_error", r.calls + 2, NoData, r)
       ELSE IF ~BudgetRowExists(r.budget)
       THEN /\ UNCHANGED alerts
            /\ Return(p, "db_error", r.calls + 1, NoData, r)
       ELSE /\ alerts' = (alerts \ {old}) \cup {row}
            /\ Return(p, "ok", r.calls + 2, row, r)

\* SELECT EXISTS(...), then DELETE FROM budget_alerts WHERE id = ? AND user_id = ?
DeleteBudgetAlert(p, id, userID) ==
    LET r == [op |-> "DeleteBudgetAlert", id |-> id, user |-> userID, calls |-> 0] IN
    /\ Idle(p)
    /\ UNCHANGED <<users, categories, bills, budgets, nextBudgetId, nextAlertId, nextBillId,
                   nextCategoryId, now, nextUserId>>
    /\ IF ~AlertFound(id, userID)
       THEN /\ UNCHANGED alerts
            /\ Return(p, "not_found", 1, NoData, r)
       ELSE /\ ~TxHoldsAlertsOf(AlertRow(id, userID).budget)
            /\ alerts' = alerts \ {AlertRow(id, userID)}
            /\ Return(p, "ok", 2, NoData, r)

-----------------------------------------------------------------------------
(* Bills *)

\* SELECT ... FROM bills b ... WHERE b.id = ? AND b.user_id = ?
BillFound(id, userID) == \E b \in bills : b.id = id /\ b.user = userID
BillRow(id, userID) == CHOOSE b \in bills : b.id = id /\ b.user = userID

CreateBillCheck(p, userID, categoryID, amount, type, date) ==
    LET r == [op |-> "CreateBill", user |-> userID, cat |-> categoryID,
              amount |-> amount, type |-> type, date |-> date, calls |-> 0]
        room == nextBillId + Pending("bill_insert") <= MaxBills
    IN
    /\ Idle(p)
    /\ UNCHANGED <<tables, nextBudgetId, nextAlertId, nextBillId, nextCategoryId, now, nextUserId>>
    /\ IF ~CategoryRowExists(categoryID) THEN Return(p, "db_error", 1, NoData, r)
       ELSE IF ~CategoryOwned(categoryID, userID) THEN Return(p, "validation", 1, NoData, r)
       ELSE IF CategoryType(categoryID) # type THEN Return(p, "validation", 1, NoData, r)
       ELSE room /\ Goto(p, "bill_insert", [r EXCEPT !.calls = 1])

\* INSERT INTO bills (user_id, category_id, amount, type, date, description), GetBill
CreateBillInsert(p) ==
    LET r == req[p]
        row == [id |-> nextBillId, user |-> r.user, cat |-> r.cat, amount |-> r.amount,
                type |-> r.type, date |-> StoreDate(r.date)]
    IN
    /\ pc[p] = "bill_insert"
    /\ UNCHANGED <<users, categories, budgets, alerts, nextBudgetId, nextAlertId, nextCategoryId,
                   now, nextUserId>>
    /\ IF ~CategoryRowExists(r.cat)
       THEN /\ UNCHANGED <<bills, nextBillId>>
            /\ Return(p, "db_error", r.calls + 1, NoData, r)
       ELSE /\ bills' = bills \cup {row}
            /\ nextBillId' = nextBillId + 1
            /\ Return(p, "ok", r.calls + 2, row, r)

UpdateBillCheck(p, id, userID, categoryID, amount, type, date) ==
    LET r == [op |-> "UpdateBill", id |-> id, user |-> userID, cat |-> categoryID,
              amount |-> amount, type |-> type, date |-> date, calls |-> 0]
    IN
    /\ Idle(p)
    /\ UNCHANGED <<tables, nextBudgetId, nextAlertId, nextBillId, nextCategoryId, now, nextUserId>>
    /\ IF ~BillFound(id, userID) THEN Return(p, "not_found", 1, NoData, r)
       ELSE IF ~CategoryRowExists(categoryID) THEN Return(p, "db_error", 2, NoData, r)
       ELSE IF ~CategoryOwned(categoryID, userID) THEN Return(p, "validation", 2, NoData, r)
       ELSE IF CategoryType(categoryID) # type THEN Return(p, "validation", 2, NoData, r)
       ELSE Goto(p, "bill_update", [r EXCEPT !.calls = 2])

\* UPDATE bills SET category_id = ?, amount = ?, type = ?, date = ?, description = ?
\*   WHERE id = ? AND user_id = ?, then GetBill
UpdateBillExec(p) ==
    LET r == req[p]
        old == BillRow(r.id, r.user)
        row == [id |-> r.id, user |-> r.user, cat |-> r.cat, amount |-> r.amount,
                type |-> r.type, date |-> StoreDate(r.date)]
    IN
    /\ pc[p] = "bill_update"
    /\ UNCHANGED <<users, categories, budgets, alerts, nextBudgetId, nextAlertId, nextBillId,
                   nextCategoryId, now, nextUserId>>
    /\ IF ~BillFound(r.id, r.user)
       THEN /\ UNCHANGED bills
            /\ Return(p, "not_found", r.calls + 2, NoData, r)
       ELSE IF ~CategoryRowExists(r.cat)
       THEN /\ UNCHANGED bills
            /\ Return(p, "db_error", r.calls + 1, NoData, r)
       ELSE /\ bills' = (bills \ {old}) \cup {row}
            /\ Return(p, "ok", r.calls + 2, row, r)

\* GetBill, then DELETE FROM bills WHERE id = ? AND user_id = ?
DeleteBill(p, id, userID) ==
    LET r == [op |-> "DeleteBill", id |-> id, user |-> userID, calls |-> 0] IN
    /\ Idle(p)
    /\ UNCHANGED <<users, categories, budgets, alerts, nextBudgetId, nextAlertId, nextBillId,
                   nextCategoryId, now, nextUserId>>
    /\ IF ~BillFound(id, userID)
       THEN /\ UNCHANGED bills
            /\ Return(p, "not_found", 1, NoData, r)
       ELSE /\ bills' = bills \ {BillRow(id, userID)}
            /\ Return(p, "ok", 2, NoData, r)

-----------------------------------------------------------------------------
(* Reads *)

GetBudget(p, id, userID) ==
    LET r == [op |-> "GetBudget", id |-> id, user |-> userID, calls |-> 0] IN
    /\ Idle(p)
    /\ UNCHANGED <<tables, nextBudgetId, nextAlertId, nextBillId, nextCategoryId, now, nextUserId>>
    /\ IF ~BudgetFound(id, userID) THEN Return(p, "not_found", 1, NoData, r)
       ELSE Return(p, "ok", 2, BudgetView(BudgetRow(id, userID), userID), r)

\* rows in ascending id order
RECURSIVE ById(_)
ById(S) ==
    IF S = {} THEN <<>>
    ELSE LET r == CHOOSE x \in S : \A y \in S : x.id <= y.id
         IN <<r>> \o ById(S \ {r})

\* SELECT ... FROM budgets b LEFT JOIN categories c ... WHERE b.user_id = ?
\*   AND DATE_FORMAT(b.month, '%Y-%m') = ? ORDER BY b.category_id IS NULL DESC, c.name
\* (the rows without a category first; the order among the others is left to ids)
GetBudgetsList(userID, month) ==
    LET rows == { b \in budgets : b.user = userID /\ DateFormatMonth(b.month) = month }
        ordered == ById({ b \in rows : b.cat = NullCategory })
                   \o ById({ b \in rows : b.cat # NullCategory })
    IN [ i \in 1..Len(ordered) |-> BudgetUsage(ordered[i], userID, ParseMonth(month)) ]

GetBudgets(p, userID, month) ==
    LET r == [op |-> "GetBudgets", user |-> userID, month |-> month, calls |-> 0]
        list == GetBudgetsList(userID, month)
    IN
    /\ Idle(p)
    /\ UNCHANGED <<tables, nextBudgetId, nextAlertId, nextBillId, nextCategoryId, now, nextUserId>>
    /\ IF ~ParseMonthOk(month) THEN Return(p, "validation", 0, NoData, r)
       ELSE Return(p, "ok", 1 + Len(list), list, r)

-----------------------------------------------------------------------------
(* Categories *)

\* SELECT EXISTS(SELECT 1 FROM categories WHERE user_id = ? AND name = ? AND type = ?
\*   [AND id != ?])
CategoryNameExists(userID, name, type, excludeID) ==
    \E c \in categories :
        c.user = userID /\ c.name = name /\ c.type = type /\ c.id # excludeID

\* a categories table without its unique key
UniqueCategoryUnchecked(row) == FALSE

\* UNIQUE KEY unique_category (user_id, name, type)
UniqueCategoryViolated(row) ==
    \E c \in categories :
        c.id # row.id /\ c.user = row.user /\ c.name = row.name /\ c.type = row.type

\* SELECT ... FROM categories WHERE id = ? AND user_id = ?
CategoryRow(id, userID) == CHOOSE c \in categories : c.id = id /\ c.user = userID

CreateCategoryCheck(p, userID, name, type) ==
    LET r == [op |-> "CreateCategory", user |-> userID, name |-> name, type |-> type,
              calls |-> 0]
        room == nextCategoryId + Pending("cc_insert") < NumDefault * NumUsers + 1 + MaxCategories
    IN
    /\ Idle(p)
    /\ UNCHANGED <<tables, nextBudgetId, nextAlertId, nextBillId, nextCategoryId, now, nextUserId>>
    /\ IF CategoryNameExists(userID, name, type, 0) THEN Return(p, "conflict", 1, NoData, r)
       ELSE room /\ Goto(p, "cc_insert", [r EXCEPT !.calls = 1])

\* INSERT INTO categories (user_id, name, type, icon), GetCategory
CreateCategoryInsert(p) ==
    LET r == req[p]
        row == [id |-> nextCategoryId, user |-> r.user, name |-> r.name, type |-> r.type]
    IN
    /\ pc[p] = "cc_insert"
    /\ UNCHANGED <<users, bills, budgets, alerts, nextBudgetId, nextAlertId, nextBillId, now,
                   nextUserId>>
    /\ IF UniqueCategoryViolated(row)
       THEN /\ UNCHANGED <<categories, nextCategoryId>>
            /\ Return(p, "dup_key", r.calls + 1, NoData, r)
       ELSE /\ categories' = categories \cup {row}
            /\ nextCategoryId' = nextCategoryId + 1
            /\ Return(p, "ok", r.calls + 2, row, r)

UpdateCategoryCheck(p, id, userID, name, type) ==
    LET r == [op |-> "UpdateCategory", id |-> id, user |-> userID, name |-> name,
              type |-> type, calls |-> 0]
    IN
    /\ Idle(p)
    /\ UNCHANGED <<tables, nextBudgetId, nextAlertId, nextBillId, nextCategoryId, now, nextUserId>>
    /\ IF ~CategoryOwned(id, userID) THEN Return(p, "not_found", 1, NoData, r)
       ELSE IF CategoryNameExists(userID, name, type, id)
            THEN Return(p, "conflict", 2, NoData, r)
       ELSE Goto(p, "uc_update", [r EXCEPT !.calls = 2])

\* UPDATE categories SET name = ?, type = ?, icon = ? WHERE id = ? AND user_id = ?,
\* GetCategory
UpdateCategoryExec(p) ==
    LET r == req[p]
        row == [id |-> r.id, user |-> r.user, name |-> r.name, type |-> r.type]
    IN
    /\ pc[p] = "uc_update"
    /\ UNCHANGED <<users, bills, budgets, alerts, nextBudgetId, nextAlertId, nextBillId,
                   nextCategoryId, now, nextUserId>>
    /\ IF ~CategoryOwned(r.id, r.user)
       THEN /\ UNCHANGED categories
            /\ Return(p, "not_found", r.calls + 2, NoData, r)
       ELSE IF UniqueCategoryViolated(row)
       THEN /\ UNCHANGED categories
            /\ Return(p, "dup_key", r.calls + 1, NoData, r)
       ELSE /\ categories' = (categories \ {CategoryRow(r.id, r.user)}) \cup {row}
            /\ Return(p, "ok", r.calls + 2, row, r)

\* SELECT ... FROM bills b LEFT JOIN categories c ... WHERE b.id = ? AND b.user_id = ?
GetBillAnyUser(p, id, userID) ==
    LET r == [op |-> "GetBill", id |-> id, user |-> userID, calls |-> 0] IN
    /\ Idle(p)
    /\ UNCHANGED <<tables, nextBudgetId, nextAlertId, nextBillId, nextCategoryId, now, nextUserId>>
    /\ IF ~HasId(bills, id) THEN Return(p, "not_found", 1, NoData, r)
       ELSE Return(p, "ok", 1, RowById(bills, id), r)
GetBill(p, id, userID) ==
    LET r == [op |-> "GetBill", id |-> id, user |-> userID, calls |-> 0] IN
    /\ Idle(p)
    /\ UNCHANGED <<tables, nextBudgetId, nextAlertId, nextBillId, nextCategoryId, now, nextUserId>>
    /\ IF ~BillFound(id, userID) THEN Return(p, "not_found", 1, NoData, r)
       ELSE Return(p, "ok", 1, BillRow(id, userID), r)

\* SELECT ... FROM categories WHERE id = ? AND user_id = ?
GetCategory(p, id, userID) ==
    LET r == [op |-> "GetCategory", id |-> id, user |-> userID, calls |-> 0] IN
    /\ Idle(p)
    /\ UNCHANGED <<tables, nextBudgetId, nextAlertId, nextBillId, nextCategoryId, now, nextUserId>>
    /\ IF ~CategoryOwned(id, userID) THEN Return(p, "not_found", 1, NoData, r)
       ELSE Return(p, "ok", 1, CategoryRow(id, userID), r)

\* SELECT COUNT(*) FROM bills WHERE category_id = ?
CountBillsOfCategory(id) == Cardinality({ b \in bills : b.cat = id })
\* SELECT COUNT(*) FROM budgets WHERE category_id = ?
CountBudgetsOfCategory(id) == Cardinality({ b \in budgets : b.cat = id })

DeleteCategoryCheckBillsOnly(p, id, userID) ==
    LET r == [op |-> "DeleteCategory", id |-> id, user |-> userID, calls |-> 0] IN
    /\ Idle(p)
    /\ UNCHANGED <<tables, nextBudgetId, nextAlertId, nextBillId, nextCategoryId, now, nextUserId>>
    /\ IF ~CategoryOwned(id, userID) THEN Return(p, "not_found", 1, NoData, r)
       ELSE IF CountBillsOfCategory(id) > 0 THEN Return(p, "in_use", 2, NoData, r)
       ELSE Goto(p, "dc_delete", [r EXCEPT !.calls = 3])
DeleteCategoryCheck(p, id, userID) ==
    LET r == [op |-> "DeleteCategory", id |-> id, user |-> userID, calls |-> 0] IN
    /\ Idle(p)
    /\ UNCHANGED <<tables, nextBudgetId, nextAlertId, nextBillId, nextCategoryId, now, nextUserId>>
    /\ IF ~CategoryOwned(id, userID) THEN Return(p, "not_found", 1, NoData, r)
       ELSE IF CountBillsOfCategory(id) > 0 THEN Return(p, "in_use", 2, NoData, r)
       ELSE IF CountBudgetsOfCategory(id) > 0 THEN Return(p, "in_use", 3, NoData, r)
       ELSE Goto(p, "dc_delete", [r EXCEPT !.calls = 3])

\* DELETE FROM categories WHERE id = ? AND user_id = ?; the bills of the category go
\* with it (ON DELETE CASCADE) and its budgets lose their category (ON DELETE SET NULL)
DeleteCategoryExec(p) ==
    LET r == req[p]
        gone == CategoryOwned(r.id, r.user)
    IN
    /\ pc[p] = "dc_delete"
    /\ \A b \in budgets : b.cat = r.id => ~TxHoldsBudget(b.id)
    /\ UNCHANGED <<users, alerts, nextBudgetId, nextAlertId, nextBillId, nextCategoryId, now,
                   nextUserId>>
    /\ categories' = IF gone THEN categories \ {CategoryRow(r.id, r.user)} ELSE categories
    /\ bills' = IF gone THEN { b \in bills : b.cat # r.id } ELSE bills
    /\ budgets' = IF gone
                  THEN { IF b.cat = r.id THEN [b EXCEPT !.cat = NullCategory] ELSE b
                         : b \in budgets }
                  ELSE budgets
    /\ Return(p, "ok", r.calls + 1, NoData, r)

-----------------------------------------------------------------------------
(* Users: CreateUser with its transaction, UpdateUser *)

\* SELECT EXISTS(SELECT 1 FROM users WHERE username = ?), ... WHERE email = ?
UsernameExists(username) == \E x \in users : x.username = username
EmailExists(email) == \E x \in users : x.email = email

\* username VARCHAR(50) NOT NULL UNIQUE, email VARCHAR(100) NOT NULL UNIQUE
UniqueUserUnchecked(row) == FALSE
UniqueUserViolated(row) ==
    \E x \in users : x.id # row.id /\ (x.username = row.username \/ x.email = row.email)

\* an open transaction inserted a users row with the username or the email: a
\* statement that writes the same unique key waits for that transaction to end
TxHoldsUserKey(p, username, email) ==
    \E q \in Procs \ {p} :
        /\ pc[q] \in {"cu_category", "cu_commit"}
        /\ (req[q].username = username \/ req[q].email = email)

\* the requests that have a users row still to insert
PendingUsers ==
    Cardinality({ q \in Procs : pc[q] \in {"cu_email", "cu_begin", "cu_user"} })

CreateUserCheckUsername(p, username, email) ==
    LET r == [op |-> "CreateUser", username |-> username, email |-> email, calls |-> 1]
        room == nextUserId + PendingUsers < NumUsers + 1 + MaxNewUsers
    IN
    /\ Idle(p)
    /\ UNCHANGED <<tables, nextBudgetId, nextAlertId, nextBillId, nextCategoryId, now,
                   nextUserId>>
    /\ IF UsernameExists(username) THEN Return(p, "conflict", 1, NoData, r)
       ELSE room /\ Goto(p, "cu_email", r)

CreateUserCheckEmail(p) ==
    LET r == req[p] IN
    /\ pc[p] = "cu_email"
    /\ UNCHANGED <<tables, nextBudgetId, nextAlertId, nextBillId, nextCategoryId, now,
                   nextUserId>>
    /\ IF EmailExists(r.email) THEN Return(p, "conflict", 2, NoData, r)
       ELSE Goto(p, "cu_begin", [r EXCEPT !.calls = 2])

\* DB.Begin()
CreateUserBegin(p, ok) ==
    LET r == req[p] IN
    /\ pc[p] = "cu_begin"
    /\ UNCHANGED <<tables, nextBudgetId, nextAlertId, nextBillId, nextCategoryId, now,
                   nextUserId>>
    /\ IF ok THEN Goto(p, "cu_user", [r EXCEPT !.calls = 3])
       ELSE Return(p, "db_error", 3, NoData, r)

\* tx.Exec("INSERT INTO users ..."), result.LastInsertId(); on an error tx.Rollback()
CreateUserInsertUser(p, ok) ==
    LET r == req[p]
        row == [id |-> nextUserId, username |-> r.username, email |-> r.email]
    IN
    /\ pc[p] = "cu_user"
    /\ ~TxHoldsUserKey(p, r.username, r.email)
    /\ UNCHANGED <<tables, nextBudgetId, nextAlertId, nextBillId, nextCategoryId, now>>
    /\ IF UniqueUserViolated(row)
       THEN /\ UNCHANGED nextUserId
            /\ Return(p, "dup_key", r.calls + 2, NoData, r)
       ELSE IF ~ok
       THEN /\ UNCHANGED nextUserId
            /\ Return(p, "db_error", r.calls + 2, NoData, r)
       ELSE /\ nextUserId' = nextUserId + 1
            /\ Goto(p, "cu_category",
                    [op |-> "CreateUser", username |-> r.username, email |-> r.email,
                     calls |-> r.calls + 1, id |-> nextUserId, cats |-> <<>>])

\* the rows of the default categories a transaction inserted so far
DefaultCategoryRows(userID, ids) ==
    { [id |-> ids[i], user |-> userID,
       name |-> defaultCategories[i].name, type |-> defaultCategories[i].type]
      : i \in 1..Len(ids) }

\* the statement run with DB.Exec: its row is committed at once
CreateUserInsertCategoryNoTx(p, ok) ==
    LET r == req[p]
        ids == Append(r.cats, nextCategoryId)
    IN
    /\ pc[p] = "cu_category"
    /\ UNCHANGED <<users, bills, budgets, alerts, nextBudgetId, nextAlertId, nextBillId, now,
                   nextUserId>>
    /\ IF ~ok
       THEN /\ UNCHANGED <<categories, nextCategoryId>>
            /\ Return(p, "db_error", r.calls + 2, NoData, r)
       ELSE /\ nextCategoryId' = nextCategoryId + 1
            /\ categories' = categories \cup DefaultCategoryRows(r.id, ids)
            /\ Goto(p, IF Len(ids) < NumDefault THEN "cu_category" ELSE "cu_commit",
                    [r EXCEPT !.calls = r.calls + 1, !.cats = ids])

\* one turn of the loop over defaultCategories:
\* tx.Exec("INSERT INTO categories ..."); on an error tx.Rollback()
CreateUserInsertCategory(p, ok) ==
    LET r == req[p]
        ids == Append(r.cats, nextCategoryId)
    IN
    /\ pc[p] = "cu_category"
    /\ UNCHANGED <<tables, nextBudgetId, nextAlertId, nextBillId, now, nextUserId>>
    /\ IF ~ok
       THEN /\ UNCHANGED nextCategoryId
            /\ Return(p, "db_error", r.calls + 2, NoData, r)
       ELSE /\ nextCategoryId' = nextCategoryId + 1
            /\ Goto(p, IF Len(ids) < NumDefault THEN "cu_category" ELSE "cu_commit",
                    [r EXCEPT !.calls = r.calls + 1, !.cats = ids])

\* tx.Commit(): the users row and the category rows become visible at once
CreateUserCommit(p, ok) ==
    LET r == req[p]
        row == [id |-> r.id, username |-> r.username, email |-> r.email]
    IN
    /\ pc[p] = "cu_commit"
    /\ UNCHANGED <<bills, budgets, alerts, nextBudgetId, nextAlertId, nextBillId,
                   nextCategoryId, now, nextUserId>>
    /\ IF ok THEN /\ users' = users \cup {row}
                  /\ categories' = categories \cup DefaultCategoryRows(r.id, r.cats)
                  /\ Return(p, "ok", r.calls + 1, row, r)
       ELSE /\ UNCHANGED <<users, categories>>
            /\ Return(p, "db_error", r.calls + 1, NoData, r)

\* UPDATE users SET username = ?, email = ?, phone = ?, avatar = ? WHERE id = ?,
\* GetUserByID
UpdateUser(p, id, username, email) ==
    LET r == [op |-> "UpdateUser", id |-> id, username |-> username, email |-> email,
              calls |-> 1]
        row == [id |-> id, username |-> username, email |-> email]
    IN
    /\ Idle(p)
    /\ ~TxHoldsUserKey(p, username, email)
    /\ UNCHANGED <<categories, bills, budgets, alerts, nextBudgetId, nextAlertId, nextBillId,
                   nextCategoryId, now, nextUserId>>
    /\ IF ~HasId(users, id)
       THEN /\ UNCHANGED users
            /\ Return(p, "not_found", 2, NoData, r)
       ELSE IF UniqueUserViolated(row)
       THEN /\ UNCHANGED users
            /\ Return(p, "dup_key", 1, NoData, r)
       ELSE /\ users' = { x \in users : x.id # id } \cup {row}
            /\ Return(p, "ok", 2, row, r)

-----------------------------------------------------------------------------
(* ListAlerts *)

\* strconv.ParseUint(idStr, 10, 32) of the strings of the model; any other string,
\* the empty one included, is an error
Decimal == [s \in {"0", "1", "2"} |-> IF s = "0" THEN 0 ELSE IF s = "1" THEN 1 ELSE 2]
ParseUintOk(str) == str \in DOMAIN Decimal
ParseUint(str) == IF ParseUintOk(str) THEN Decimal[str] ELSE 0

\* the parameters the router took from the path of /api/budget-alerts: none
AlertsRouteParams == <<>>

\* c.Ctx.Input.Param(key): a parameter of the route, "" when it has none of the name
Param(params, key) ==
    IF \E i \in 1..Len(params) : params[i].name = key
    THEN (CHOOSE x \in { params[i] : i \in 1..Len(params) } : x.name = key).value
    ELSE ""

\* idStr := c.Ctx.Input.Param(":" + param); strconv.ParseUint(idStr, 10, 32)
GetUintParam(params, param) ==
    LET idStr == Param(params, ":" \o param)
    IN [ok |-> ParseUintOk(idStr), id |-> ParseUint(idStr)]

\* budgetIDStr := c.Ctx.Input.Query("budget_id"); the budgetID handed to the model
ListAlertsBudgetID(query) ==
    LET got == GetUintParam(AlertsRouteParams, "budget_id")
    IN IF query # "" /\ got.ok THEN got.id ELSE 0

\* ORDER BY threshold: every order of the rows with thresholds ascending
OrderedByThreshold(rows) ==
    { list \in [1..Cardinality(rows) -> rows] :
        /\ \A i, j \in DOMAIN list : i # j => list[i] # list[j]
        /\ \A i, j \in DOMAIN list : i < j => list[i].threshold <= list[j].threshold }

\* SELECT ... FROM budget_alerts WHERE user_id = ? [AND budget_id = ?] ORDER BY threshold
GetBudgetAlerts(userID, budgetID) ==
    OrderedByThreshold({ a \in alerts :
        a.user = userID /\ (budgetID > 0 => a.budget = budgetID) })

ListAlerts(p, userID, query) ==
    LET r == [op |-> "ListAlerts", user |-> userID, query |-> query, calls |-> 1]
    IN
    /\ Idle(p)
    /\ UNCHANGED <<tables, nextBudgetId, nextAlertId, nextBillId, nextCategoryId, now, nextUserId>>
    /\ \E list \in GetBudgetAlerts(userID, ListAlertsBudgetID(query)) :
            Return(p, "ok", 1, list, r)

-----------------------------------------------------------------------------
(* CheckBudgetAlerts *)

\* usedPercentage >= float64(threshold)
PctGreater(pct, threshold) == pct.num > threshold * pct.den
PctAtLeast(pct, threshold) == pct.num >= threshold * pct.den

\* for _, b := range budgets { if b.ID == budgetID { matchBudget = b; break } }
MatchIndex(list, budgetID) ==
    IF \E i \in 1..Len(list) : list[i].ID = budgetID
    THEN CHOOSE i \in 1..Len(list) :
            /\ list[i].ID = budgetID
            /\ \A j \in 1..(i - 1) : list[j].ID # budgetID
    ELSE 0

\* the alerts query without its is_active condition
ActiveAlertRowsAnyState(userID, currentMonth) ==
    LET joined == { a \in alerts :
            /\ a.user = userID
            /\ \E b \in budgets : b.id = a.budget /\ DateFormatMonth(b.month) = currentMonth }
        ordered == ById(joined)
    IN [ i \in 1..Len(ordered) |->
            LET a == ordered[i]
                b == RowById(budgets, a.budget)
            IN [alertID |-> a.id, budgetID |-> a.budget, threshold |-> a.threshold,
                budgetAmount |-> b.amount, categoryID |-> b.cat] ]
\* SELECT ba.id, ba.budget_id, ba.threshold, b.amount, b.category_id, c.name
\*   FROM budget_alerts ba JOIN budgets b ON ba.budget_id = b.id LEFT JOIN categories c ...
\*   WHERE ba.user_id = ? AND ba.is_active = 1 AND DATE_FORMAT(b.month, '%Y-%m') = ?
ActiveAlertRows(userID, currentMonth) ==
    LET joined == { a \in alerts :
            /\ a.user = userID
            /\ a.active
            /\ \E b \in budgets : b.id = a.budget /\ DateFormatMonth(b.month) = currentMonth }
        ordered == ById(joined)
    IN [ i \in 1..Len(ordered) |->
            LET a == ordered[i]
                b == RowById(budgets, a.budget)
            IN [alertID |-> a.id, budgetID |-> a.budget, threshold |-> a.threshold,
                budgetAmount |-> b.amount, categoryID |-> b.cat] ]

RECURSIVE TriggeredAlerts(_, _, _)
TriggeredAlerts(rows, list, i) ==
    IF i > Len(rows) THEN <<>>
    ELSE LET row == rows[i]
             k == MatchIndex(list, row.budgetID)
             rest == TriggeredAlerts(rows, list, i + 1)
         IN IF k = 0 THEN rest
            ELSE IF PctAtLeast(list[k].Percentage, row.threshold)
            THEN << [alert_id |-> row.alertID, budget_id |-> row.budgetID,
                     threshold |-> row.threshold, used_percent |-> list[k].Percentage,
                     used_amount |-> list[k].UsedAmount, budget_amount |-> row.budgetAmount,
                     category_id |-> row.categoryID,
                     budget_type |-> IF row.categoryID # NullCategory
                                     THEN "category" ELSE "total"] >> \o rest
            ELSE rest

\* now.Format("2006-01"), GetBudgets(userID, currentMonth)
\* (reads only: the response last written stays the last one written)
CheckLoadBudgets(p, userID) ==
    LET list == GetBudgetsList(userID, now)
        r == [op |-> "CheckBudgetAlerts", user |-> userID, month |-> now,
              budgets |-> list, calls |-> 1 + Len(list)]
    IN
    /\ Idle(p)
    /\ UNCHANGED <<tables, nextBudgetId, nextAlertId, nextBillId, nextCategoryId, now, nextUserId>>
    /\ pc' = [pc EXCEPT ![p] = "chk_alerts"]
    /\ req' = [req EXCEPT ![p] = r]
    /\ UNCHANGED <<resp, front>>

\* the evaluation, marking the alerts it reports as no longer active
CheckEvalAlertsAndSilence(p) ==
    LET r == req[p]
        rows == ActiveAlertRows(r.user, r.month)
        data == TriggeredAlerts(rows, r.budgets, 1)
        reported == { data[i].alert_id : i \in 1..Len(data) }
    IN
    /\ pc[p] = "chk_alerts"
    /\ alerts' = { IF a.id \in reported THEN [a EXCEPT !.active = FALSE] ELSE a : a \in alerts }
    /\ UNCHANGED <<users, categories, bills, budgets, nextBudgetId, nextAlertId, nextBillId,
                   nextCategoryId, now, nextUserId>>
    /\ Return(p, "ok", r.calls + 1, data, r)
\* the evaluation, carried out for the month after the current one as well
CheckEvalAlertsNextMonthToo(p) ==
    LET r == req[p]
        next == IF r.month < NumMonths THEN r.month + 1 ELSE 1
        data == TriggeredAlerts(ActiveAlertRows(r.user, r.month), r.budgets, 1)
                \o TriggeredAlerts(ActiveAlertRows(r.user, next),
                                   GetBudgetsList(r.user, next), 1)
    IN
    /\ pc[p] = "chk_alerts"
    /\ UNCHANGED <<tables, nextBudgetId, nextAlertId, nextBillId, nextCategoryId, now, nextUserId>>
    /\ Return(p, "ok", r.calls + 1, data, r)
\* the query of the active alerts, and the loop over its rows
CheckEvalAlerts(p) ==
    LET r == req[p]
        rows == ActiveAlertRows(r.user, r.month)
    IN
    /\ pc[p] = "chk_alerts"
    /\ UNCHANGED <<tables, nextBudgetId, nextAlertId, nextBillId, nextCategoryId, now, nextUserId>>
    /\ Return(p, "ok", r.calls + 1, TriggeredAlerts(rows, r.budgets, 1), r)

\* the wall clock reaches the next month
Tick ==
    /\ now < NumMonths
    /\ now' = now + 1
    /\ resp' = NoResp
    /\ UNCHANGED <<tables, nextBudgetId, nextAlertId, nextBillId, nextCategoryId, pc, req, front,
                   nextUserId>>

-----------------------------------------------------------------------------
(* Request parameters *)

FoodOf(u) == DefaultCategoryId(u, 1)
ShoppingOf(u) == DefaultCategoryId(u, 2)
SalaryOf(u) == DefaultCategoryId(u, 5)
MissingCategory == NumDefault * NumUsers + 1

\* the handler that runs alone, when requests run one at a time
Single == {1}

BudgetIds == 1..MaxBudgets
AlertIds == 1..MaxAlerts
BillIds == 1..MaxBills

\* the errors that report a slot already taken: the handlers' own message, and
\* MySQL's duplicate-entry error of unique_budget
ConflictStatus == {"conflict", "dup_key"}

-----------------------------------------------------------------------------
(* Concurrent CreateBudget requests *)

CreateCats == {NullCategory, FoodOf(1)}
CreateAmounts == {100}

NextCreate ==
    \E p \in Procs :
        \/ \E u \in Users, c \in CreateCats, a \in CreateAmounts, m \in Months :
                CreateBudgetCheck(p, u, c, a, m)
        \/ CreateBudgetInsert(p)

SpecCreate == Init /\ [][NextCreate]_vars

SameSlot(b1, b2) ==
    /\ b1.user = b2.user
    /\ b1.cat = b2.cat
    /\ DateFormatMonth(b1.month) = DateFormatMonth(b2.month)

\* C1: at most one budget per (user, category-or-null, month) slot in every
\* reachable state, also when CreateBudget requests for one slot interleave
\* their COUNT and their INSERT
C1_OneBudgetPerSlot ==
    \A b1 \in budgets, b2 \in budgets : SameSlot(b1, b2) => b1 = b2

-----------------------------------------------------------------------------
(* CreateBudget, UpdateBudget and DeleteBudget, one request at a time *)

SeqCats == {NullCategory, FoodOf(1), SalaryOf(1), MissingCategory}
SeqMonths == {BadMonth, 1, 2}

NextBudgetSeq ==
    \E p \in Single :
        \/ \E u \in Users, c \in SeqCats, a \in CreateAmounts, m \in SeqMonths :
                CreateBudgetCheck(p, u, c, a, m)
        \/ CreateBudgetInsert(p)
        \/ \E id \in BudgetIds, u \in Users, c \in SeqCats, a \in CreateAmounts,
              m \in SeqMonths :
                UpdateBudgetCheck(p, id, u, c, a, m)
        \/ UpdateBudgetExec(p)
        \/ \E id \in BudgetIds, u \in Users : DeleteBudgetCheck(p, id, u)
        \/ \E ok \in BOOLEAN : DeleteBudgetBegin(p, ok)
        \/ \E ok \in BOOLEAN : DeleteBudgetExecAlerts(p, ok)
        \/ \E ok \in BOOLEAN : DeleteBudgetExecBudget(p, ok)
        \/ \E ok \in BOOLEAN : DeleteBudgetCommit(p, ok)

SpecBudgetSeq == Init /\ [][NextBudgetSeq]_vars

\* the slot a request names holds a budget other than the one with id exclude
SlotTaken(userID, categoryID, month, exclude) ==
    \E b \in budgets :
        /\ b.id # exclude
        /\ b.user = userID /\ b.cat = categoryID /\ DateFormatMonth(b.month) = month

\* C7: an UpdateBudget that moves a budget of the caller to a slot another
\* budget of the caller holds returns a conflict error and changes no budget
C7_UpdateToTakenSlotConflicts ==
    [][ ( /\ resp'.op = "UpdateBudget"
          /\ BudgetFound(resp'.args.id, resp'.args.user)
          /\ SlotTaken(resp'.args.user, resp'.args.cat, resp'.args.month, resp'.args.id) )
        => ( resp'.status \in ConflictStatus /\ budgets' = budgets ) ]_vars

\* C8: with requests one at a time, a CreateBudget for a slot that holds a
\* budget returns the conflict error and leaves the stored budgets as they were
C8_CreateInTakenSlotConflicts ==
    [][ ( /\ resp'.op = "CreateBudget"
          /\ SlotTaken(resp'.args.user, resp'.args.cat, resp'.args.month, 0) )
        => ( resp'.status = "conflict" /\ budgets' = budgets ) ]_vars

\* a second total budget for a user and month was refused
C8_Witness ==
    /\ resp.op = "CreateBudget"
    /\ resp.status = "conflict"
    /\ resp.args.cat = NullCategory
    /\ SlotTaken(resp.args.user, NullCategory, resp.args.month, 0)

-----------------------------------------------------------------------------
(* DeleteBudget beside concurrent CreateBudget and CreateBudgetAlert requests *)

TotalOnly == {NullCategory}
FirstMonth == {1}

NextDelete ==
    \E p \in Procs :
        \/ \E u \in Users, c \in TotalOnly, a \in CreateAmounts, m \in FirstMonth :
                CreateBudgetCheck(p, u, c, a, m)
        \/ CreateBudgetInsert(p)
        \/ \E u \in Users, b \in BudgetIds, t \in {50, 80} :
                CreateBudgetAlertCheck(p, u, b, t, TRUE)
        \/ CreateBudgetAlertInsert(p)
        \/ \E id \in BudgetIds, u \in Users : DeleteBudgetCheck(p, id, u)
        \/ \E ok \in BOOLEAN : DeleteBudgetBegin(p, ok)
        \/ \E ok \in BOOLEAN : DeleteBudgetExecAlerts(p, ok)
        \/ \E ok \in BOOLEAN : DeleteBudgetExecBudget(p, ok)
        \/ \E ok \in BOOLEAN : DeleteBudgetCommit(p, ok)

SpecDelete == Init /\ [][NextDelete]_vars

AlertsOf(table, budgetID) == { a \in table : a.budget = budgetID }

\* a process inside DeleteBudget(id, ...) takes the step
DeleteBudgetStep(id) ==
    \E p \in Procs :
        /\ pc[p] \in {"db_begin", "db_exec_alerts", "db_exec_budget", "db_commit"}
        /\ req[p].id = id
        /\ pc'[p] # pc[p]

\* C2: DeleteBudget is atomic for every other connection: a step that removes
\* the budget row leaves none of its alerts, a step of DeleteBudget that leaves
\* the budget row leaves all of its alerts, and a DeleteBudget that fails at a
\* delete statement or at the commit leaves budgets and alerts as they were
C2_DeleteBudgetAtomic ==
    [][ \A id \in BudgetIds :
          /\ (HasId(budgets, id) /\ ~HasId(budgets', id)) => AlertsOf(alerts', id) = {}
          /\ (DeleteBudgetStep(id) /\ HasId(budgets', id))
                => (AlertsOf(alerts', id) = AlertsOf(alerts, id) /\ budgets' = budgets)
          /\ (DeleteBudgetStep(id) /\ resp'.op = "DeleteBudget" /\ resp'.status # "ok")
                => (budgets' = budgets /\ alerts' = alerts) ]_vars

\* the only budget ever created had two alerts, and a DeleteBudget removed all three rows
C2_Witness ==
    /\ resp.op = "DeleteBudget"
    /\ resp.status = "ok"
    /\ nextBudgetId = 2
    /\ nextAlertId > 2
    /\ budgets = {}
    /\ alerts = {}

-----------------------------------------------------------------------------
(* Concurrent CreateBudgetAlert and UpdateBudgetAlert requests *)

AlertThresholds == {0, 80, 100, 101}

NextAlert ==
    \E p \in Procs :
        \/ \E u \in Users, c \in TotalOnly, a \in CreateAmounts, m \in FirstMonth :
                CreateBudgetCheck(p, u, c, a, m)
        \/ CreateBudgetInsert(p)
        \/ \E u \in Users, b \in BudgetIds, t \in AlertThresholds :
                CreateBudgetAlertCheck(p, u, b, t, TRUE)
        \/ CreateBudgetAlertInsert(p)
        \/ \E id \in AlertIds, u \in Users, b \in BudgetIds, t \in AlertThresholds :
                UpdateBudgetAlertCheck(p, id, u, b, t, TRUE)
        \/ UpdateBudgetAlertExec(p)
        \/ \E id \in AlertIds, u \in Users : DeleteBudgetAlert(p, id, u)

SpecAlert == Init /\ [][NextAlert]_vars

\* C9: a CreateAlert with a threshold outside 1..100 returns the validation
\* error with no persistence call issued, whatever budget it names
C9_ThresholdCheckedFirst ==
    (resp.op = "CreateBudgetAlert" /\ resp.args.threshold \notin 1..100)
        => (resp.status = "validation" /\ resp.calls = 0)

\* C10: no two stored alerts of one budget have the same threshold, also when
\* CreateAlert and UpdateAlert requests interleave their COUNT and their write
C10_OneAlertPerThreshold ==
    \A a1 \in alerts, a2 \in alerts :
        (a1.budget = a2.budget /\ a1.threshold = a2.threshold) => a1 = a2

-----------------------------------------------------------------------------
(* The derived values as the data model defines them, from the tables alone *)

\* the expense bills of the budget's user in the budget's month, of the budget's
\* category when it has one
BillsOfBudget(b) ==
    { x \in bills :
        /\ x.user = b.user
        /\ x.type = "expense"
        /\ x.date.m = b.month.m
        /\ (b.cat # NullCategory => x.cat = b.cat) }

DerivedUsed(b) == SumAmount(BillsOfBudget(b))

\* Percentage >= t, Percentage = t: UsedAmount / Amount * 100 against t, and 0
\* against t when Amount <= 0
DerivedPctAtLeast(b, t) ==
    IF b.amount > 0 THEN DerivedUsed(b) * 100 >= t * b.amount ELSE 0 >= t
DerivedPctEquals(b, t) ==
    IF b.amount > 0 THEN DerivedUsed(b) * 100 = t * b.amount ELSE 0 = t

\* the alerts CheckAlerts(userID) is to report for the month
DueAlerts(userID, month) ==
    { a \in alerts :
        /\ a.active
        /\ a.user = userID
        /\ \E b \in budgets :
            b.id = a.budget /\ b.month.m = month /\ DerivedPctAtLeast(b, a.threshold) }

Reported(data, alertID) == { i \in 1..Len(data) : data[i].alert_id = alertID }

-----------------------------------------------------------------------------
(* CheckBudgetAlerts, one request at a time *)

BillAmounts == {50}
FirstDay == {[m |-> 1, d |-> 1]}

NextCheck ==
    \E p \in Single :
        \/ \E u \in Users, c \in CreateCats, a \in CreateAmounts, m \in FirstMonth :
                CreateBudgetCheck(p, u, c, a, m)
        \/ CreateBudgetInsert(p)
        \/ \E u \in Users, a \in BillAmounts, d \in FirstDay :
                CreateBillCheck(p, u, FoodOf(u), a, "expense", d)
        \/ CreateBillInsert(p)
        \/ \E u \in Users, b \in BudgetIds, t \in {50, 51}, act \in BOOLEAN :
                CreateBudgetAlertCheck(p, u, b, t, act)
        \/ CreateBudgetAlertInsert(p)
        \/ \E u \in Users : CheckLoadBudgets(p, u)
        \/ CheckEvalAlerts(p)
        \/ Tick

SpecCheck == Init /\ [][NextCheck]_vars

\* C3: every record CheckAlerts returns is of an alert whose parent budget has
\* Percentage >= the alert's threshold, and an active alert of the caller on a
\* budget of the month whose Percentage equals its threshold is returned
C3_TriggeredAtOrAboveThreshold ==
    resp.op = "CheckBudgetAlerts" =>
        /\ \A i \in 1..Len(resp.data) :
            \E a \in alerts, b \in budgets :
                /\ a.id = resp.data[i].alert_id
                /\ b.id = a.budget
                /\ resp.data[i].budget_id = b.id
                /\ resp.data[i].threshold = a.threshold
                /\ DerivedPctAtLeast(b, a.threshold)
        /\ \A a \in alerts, b \in budgets :
            ( /\ a.active /\ a.user = resp.args.user
              /\ b.id = a.budget /\ b.month.m = resp.args.month
              /\ DerivedPctEquals(b, a.threshold) )
            => Reported(resp.data, a.id) # {}

\* an alert at exactly its threshold is returned, and an active alert of the
\* same budget with a higher threshold is not
C3_Witness ==
    /\ resp.op = "CheckBudgetAlerts"
    /\ \E i \in 1..Len(resp.data) :
        /\ resp.data[i].used_percent.num = resp.data[i].threshold * resp.data[i].used_percent.den
        /\ \E a \in alerts :
            /\ a.active
            /\ a.budget = resp.data[i].budget_id
            /\ a.threshold > resp.data[i].threshold
            /\ Reported(resp.data, a.id) = {}

\* C4: with requests one at a time, CheckAlerts returns exactly one record for
\* each active alert of the caller on a budget of the current month with
\* Percentage >= threshold, and no other record
C4_OneRecordPerDueAlert ==
    resp.op = "CheckBudgetAlerts" =>
        LET due == DueAlerts(resp.args.user, resp.args.month) IN
        /\ \A a \in due : Cardinality(Reported(resp.data, a.id)) = 1
        /\ \A i \in 1..Len(resp.data) : \E a \in due : a.id = resp.data[i].alert_id

\* one alert is returned while an inactive alert of the caller on the same budget,
\* with a threshold that is reached too, is left out
C4_Witness ==
    /\ resp.op = "CheckBudgetAlerts"
    /\ Len(resp.data) = 1
    /\ \E a \in alerts :
        /\ ~a.active
        /\ a.user = resp.args.user
        /\ a.budget = resp.data[1].budget_id
        /\ a.threshold <= resp.data[1].threshold

-----------------------------------------------------------------------------
(* GetBudget and GetBudgets over budgets and bills, one request at a time *)

\* user, category and type of the bills: expense and income, both users
BillKinds ==
    { [user |-> 1, cat |-> FoodOf(1), type |-> "expense"],
      [user |-> 1, cat |-> ShoppingOf(1), type |-> "expense"],
      [user |-> 1, cat |-> SalaryOf(1), type |-> "income"],
      [user |-> 2, cat |-> FoodOf(2), type |-> "expense"] }
\* the last day of January, the first and the last day of February, the first of March
BillDates ==
    { [m |-> 1, d |-> 31], [m |-> 2, d |-> 1], [m |-> 2, d |-> 28], [m |-> 3, d |-> 1] }
MovedDates == { [m |-> 2, d |-> 28], [m |-> 3, d |-> 1] }

NextUsage ==
    \E p \in Single :
        \/ \E c \in CreateCats, a \in {0 - 100, 0, 100}, m \in {2} :
                CreateBudgetCheck(p, 1, c, a, m)
        \/ CreateBudgetInsert(p)
        \/ \E k \in BillKinds, a \in BillAmounts, d \in BillDates :
                CreateBillCheck(p, k.user, k.cat, a, k.type, d)
        \/ CreateBillInsert(p)
        \/ \E id \in BillIds, a \in BillAmounts, d \in MovedDates :
                UpdateBillCheck(p, id, 1, FoodOf(1), a, "expense", d)
        \/ UpdateBillExec(p)
        \/ \E id \in BillIds, u \in Users : DeleteBill(p, id, u)
        \/ \E id \in BudgetIds, u \in Users : GetBudget(p, id, u)
        \/ \E u \in Users, m \in {BadMonth, 2} : GetBudgets(p, u, m)

SpecUsage == Init /\ [][NextUsage]_vars

\* the budgets a GetBudget or GetBudgets response carries
ReturnedBudgets ==
    IF resp.status # "ok" THEN {}
    ELSE IF resp.op = "GetBudget" THEN {resp.data}
    ELSE IF resp.op = "GetBudgets" THEN { resp.data[i] : i \in 1..Len(resp.data) }
    ELSE {}

\* C5: every budget returned by GetBudget or GetBudgets has
\* Percentage = UsedAmount / Amount * 100 when Amount > 0, and Percentage = 0
\* (with no division by Amount) when Amount <= 0
C5_PercentageFormula ==
    \A B \in ReturnedBudgets :
        /\ B.Percentage.den > 0
        /\ B.Amount > 0 =>
                B.Percentage.num * B.Amount = B.UsedAmount * 100 * B.Percentage.den
        /\ B.Amount <= 0 => B.Percentage.num = 0

\* a list with a budget of amount 0 and a budget of positive amount, both with
\* bills counted
C5_Witness ==
    /\ resp.op = "GetBudgets"
    /\ \E B \in ReturnedBudgets : B.Amount <= 0 /\ B.UsedAmount > 0
    /\ \E B \in ReturnedBudgets : B.Amount > 0 /\ B.UsedAmount > 0

\* C6: UsedAmount of a returned budget is the sum of the bills of the budget's
\* user of type expense dated in the budget's month, of the budget's category
\* when it has one, and of no other bill
C6_UsedAmountIsMonthSum ==
    \A B \in ReturnedBudgets :
        \E b \in budgets :
            /\ b.id = B.ID
            /\ b.user = resp.args.user
            /\ B.UsedAmount = DerivedUsed(b)

\* a bill dated on the last day of the month is counted while a bill of the same
\* user and type dated on the first day of the next month is not
C6_Witness ==
    /\ \E B \in ReturnedBudgets : B.UsedAmount > 0
    /\ \E x \in bills, y \in bills :
        /\ x.user = resp.args.user /\ y.user = resp.args.user
        /\ x.type = "expense" /\ y.type = "expense"
        /\ x.date = [m |-> 2, d |-> 28]
        /\ y.date = [m |-> 3, d |-> 1]

-----------------------------------------------------------------------------
(* Stored thresholds *)

AlertWrites == {"CreateBudgetAlert", "UpdateBudgetAlert"}

\* C11: every stored alert has a threshold in 1..100, and a CreateBudgetAlert or
\* UpdateBudgetAlert request with a threshold outside 1..100 fails and leaves the
\* alerts as they were
C11_StoredThresholdInRange ==
    [][ /\ \A a \in alerts' : a.threshold \in 1..100
        /\ (resp'.op \in AlertWrites /\ resp'.args.threshold \notin 1..100)
                => (resp'.status # "ok" /\ alerts' = alerts /\ nextAlertId' = nextAlertId) ]_vars

\* an UpdateBudgetAlert of an existing alert to threshold 101 is refused, and so
\* is one to threshold 0, with the alert still stored
C11_Witness ==
    /\ resp.op = "UpdateBudgetAlert"
    /\ resp.args.threshold \in {0, 101}
    /\ resp.status = "validation"
    /\ \E a \in alerts : a.id = resp.args.id /\ a.threshold = 100

-----------------------------------------------------------------------------
(* Categories with the bills and budgets that reference them, one request at a time *)

NewCategoryId == NumDefault * NumUsers + 1
CategoryNames == {"food", "gift"}
CategoryTypes == {"income", "expense"}
SeqCategoryIds == {FoodOf(1), NewCategoryId}
BillCats == {FoodOf(1), SalaryOf(1)}

NextCatSeq ==
    \E p \in Single :
        \/ \E n \in CategoryNames, t \in CategoryTypes :
                CreateCategoryCheck(p, 1, n, t)
        \/ CreateCategoryInsert(p)
        \/ \E id \in SeqCategoryIds, n \in CategoryNames, t \in CategoryTypes :
                UpdateCategoryCheck(p, id, 1, n, t)
        \/ UpdateCategoryExec(p)
        \/ \E id \in SeqCategoryIds, u \in Users : DeleteCategoryCheck(p, id, u)
        \/ DeleteCategoryExec(p)
        \/ \E c \in BillCats, a \in BillAmounts, t \in CategoryTypes, d \in FirstDay :
                CreateBillCheck(p, 1, c, a, t, d)
        \/ CreateBillInsert(p)
        \/ \E id \in BillIds, c \in BillCats, a \in BillAmounts, t \in CategoryTypes,
              d \in FirstDay :
                UpdateBillCheck(p, id, 1, c, a, t, d)
        \/ UpdateBillExec(p)
        \/ \E c \in CreateCats, a \in CreateAmounts, m \in FirstMonth :
                CreateBudgetCheck(p, 1, c, a, m)
        \/ CreateBudgetInsert(p)
        \/ \E id \in BudgetIds, c \in CreateCats, a \in CreateAmounts, m \in FirstMonth :
                UpdateBudgetCheck(p, id, 1, c, a, m)
        \/ UpdateBudgetExec(p)

SpecCatSeq == Init /\ [][NextCatSeq]_vars

\* C12: every stored bill has the type of the category it references
C12_BillTypeIsCategoryType ==
    \A b \in bills : \E c \in categories : c.id = b.cat /\ c.type = b.type

\* C13: every stored budget with a category references a category of type
\* expense owned by the budget's user
C13_BudgetCategoryIsExpense ==
    \A b \in budgets :
        b.cat # NullCategory =>
            \E c \in categories : c.id = b.cat /\ c.type = "expense" /\ c.user = b.user

\* C14: DeleteCategory of a category that a bill or a budget references fails and
\* leaves categories, bills and budgets as they were, and a DeleteCategory that
\* succeeds removed a category of the caller that no bill and no budget referenced
C14_DeleteCategoryBlocked ==
    [][ resp'.op = "DeleteCategory" =>
            LET id == resp'.args.id IN
            /\ (CountBillsOfCategory(id) > 0 \/ CountBudgetsOfCategory(id) > 0)
                    => /\ resp'.status # "ok"
                       /\ categories' = categories /\ bills' = bills /\ budgets' = budgets
            /\ resp'.status = "ok"
                    => /\ CategoryOwned(id, resp'.args.user)
                       /\ CountBillsOfCategory(id) = 0 /\ CountBudgetsOfCategory(id) = 0
                       /\ ~HasId(categories', id) ]_vars

\* a DeleteCategory refused for a category that only a budget references
C14_Witness ==
    /\ resp.op = "DeleteCategory"
    /\ resp.status = "in_use"
    /\ CountBudgetsOfCategory(resp.args.id) > 0
    /\ CountBillsOfCategory(resp.args.id) = 0

-----------------------------------------------------------------------------
(* Stored amounts *)

\* C15: every stored budget has amount > 0
C15_StoredAmountPositive ==
    \A b \in budgets : b.amount > 0

-----------------------------------------------------------------------------
(* CheckBudgetAlerts as a read *)

CheckAlertsStep ==
    \E p \in Procs : pc'[p] # pc[p] /\ "chk_alerts" \in {pc[p], pc'[p]}

Records(data) == { data[i] : i \in 1..Len(data) }

\* C16: a step of CheckAlerts leaves categories, bills, budgets and alerts as they
\* were, and a CheckAlerts that follows a CheckAlerts of the same user in the same
\* month, with no other request in between, returns the same set of records
C16_CheckAlertsPureRead ==
    [][ /\ CheckAlertsStep => tables' = tables
        /\ ( /\ resp.op = "CheckBudgetAlerts" /\ resp'.op = "CheckBudgetAlerts"
             /\ resp'.args.user = resp.args.user
             /\ resp'.args.month = resp.args.month )
                => Records(resp'.data) = Records(resp.data) ]_vars

\* a second CheckAlerts of the same user in the same month is running after a
\* first that returned a triggered alert
C16_Witness ==
    /\ resp.op = "CheckBudgetAlerts"
    /\ Len(resp.data) > 0
    /\ \E p \in Procs :
        /\ pc[p] = "chk_alerts"
        /\ req[p].user = resp.args.user
        /\ req[p].month = resp.args.month

-----------------------------------------------------------------------------
(* Two users, one naming the records of the other, one request at a time *)

OwnCats == {FoodOf(1)}
OwnThresholds == {80}
RaisedAmounts == {200}
OwnCategoryIds == {FoodOf(1)}

NextIsolation ==
    \E p \in Single :
        \/ \E u \in Users, c \in OwnCats, a \in CreateAmounts, m \in FirstMonth :
                CreateBudgetCheck(p, u, c, a, m)
        \/ CreateBudgetInsert(p)
        \/ \E id \in BudgetIds, u \in Users, c \in OwnCats, a \in RaisedAmounts, m \in FirstMonth :
                UpdateBudgetCheck(p, id, u, c, a, m)
        \/ UpdateBudgetExec(p)
        \/ \E id \in BudgetIds, u \in Users : DeleteBudgetCheck(p, id, u)
        \/ \E ok \in BOOLEAN : DeleteBudgetBegin(p, ok)
        \/ \E ok \in BOOLEAN : DeleteBudgetExecAlerts(p, ok)
        \/ \E ok \in BOOLEAN : DeleteBudgetExecBudget(p, ok)
        \/ \E ok \in BOOLEAN : DeleteBudgetCommit(p, ok)
        \/ \E id \in BudgetIds, u \in Users : GetBudget(p, id, u)
        \/ \E u \in Users, b \in BudgetIds, t \in OwnThresholds :
                CreateBudgetAlertCheck(p, u, b, t, TRUE)
        \/ CreateBudgetAlertInsert(p)
        \/ \E id \in AlertIds, u \in Users, b \in BudgetIds, t \in OwnThresholds :
                UpdateBudgetAlertCheck(p, id, u, b, t, FALSE)
        \/ UpdateBudgetAlertExec(p)
        \/ \E id \in AlertIds, u \in Users : DeleteBudgetAlert(p, id, u)
        \/ \E u \in Users, c \in OwnCats, a \in BillAmounts, d \in FirstDay :
                CreateBillCheck(p, u, c, a, "expense", d)
        \/ CreateBillInsert(p)
        \/ \E id \in BillIds, u \in Users, c \in OwnCats, a \in CreateAmounts, d \in FirstDay :
                UpdateBillCheck(p, id, u, c, a, "expense", d)
        \/ UpdateBillExec(p)
        \/ \E id \in BillIds, u \in Users : DeleteBill(p, id, u)
        \/ \E id \in BillIds, u \in Users : GetBill(p, id, u)
        \/ \E id \in OwnCategoryIds, u \in Users, n \in {"gift"}, t \in {"expense"} :
                UpdateCategoryCheck(p, id, u, n, t)
        \/ UpdateCategoryExec(p)
        \/ \E id \in OwnCategoryIds, u \in Users : DeleteCategoryCheck(p, id, u)
        \/ DeleteCategoryExec(p)
        \/ \E id \in OwnCategoryIds, u \in Users : GetCategory(p, id, u)

SpecIsolation == Init /\ [][NextIsolation]_vars

\* the requests that name a record by its id, and the table of the record
BudgetOps == {"GetBudget", "UpdateBudget", "DeleteBudget"}
AlertOps == {"UpdateBudgetAlert", "DeleteBudgetAlert"}
BillOps == {"GetBill", "UpdateBill", "DeleteBill"}
CategoryOps == {"GetCategory", "UpdateCategory", "DeleteCategory"}
ByIdOps == BudgetOps \cup AlertOps \cup BillOps \cup CategoryOps

TargetTable(op) ==
    IF op \in BudgetOps THEN budgets
    ELSE IF op \in AlertOps THEN alerts
    ELSE IF op \in BillOps THEN bills
    ELSE categories

\* the owners of the record the request names (none when there is no such record)
TargetOwners(op, id) == { r.user : r \in RowsById(TargetTable(op), id) }

RowsOf(table, v) == { r \in table : r.user = v }

\* the users of the requests that take the step
StepUsers ==
    { req'[p].user : p \in { q \in Procs : pc'[q] # "idle" /\ pc'[q] # pc[q] } }
    \cup (IF resp'.op # "none" THEN {resp'.args.user} ELSE {})

\* C17: a Get, Update or Delete that names a record of another user fails, and a
\* step of a request of user u leaves the categories, bills, budgets and alerts
\* of every other user as they were
C17_UserIsolation ==
    [][ /\ ( /\ resp'.op \in ByIdOps
             /\ TargetOwners(resp'.op, resp'.args.id) \ {resp'.args.user} # {} )
                => resp'.status # "ok"
        /\ \A u \in StepUsers : \A v \in Users \ {u} :
            /\ RowsOf(categories', v) = RowsOf(categories, v)
            /\ RowsOf(bills', v) = RowsOf(bills, v)
            /\ RowsOf(budgets', v) = RowsOf(budgets, v)
            /\ RowsOf(alerts', v) = RowsOf(alerts, v) ]_vars

\* a request of one user that named a stored record of another user was refused,
\* with bills, budgets and alerts of that other user stored
C17_Witness ==
    /\ resp.op \in ByIdOps
    /\ TargetOwners(resp.op, resp.args.id) \ {resp.args.user} # {}
    /\ resp.status = "not_found"
    /\ \E v \in Users \ {resp.args.user} :
        RowsOf(bills, v) # {} /\ RowsOf(budgets, v) # {} /\ RowsOf(alerts, v) # {}

-----------------------------------------------------------------------------
(* The filters in front of the router: CorsHandler, RateLimiter, JwtFilter *)

\* a path is its sequence of segments
whitelist ==
    { <<"api", "user", "register">>, <<"api", "user", "login">>,
      <<"api", "user", "forgot-password">> }

\* InsertFilter("/api/*", ...)
UnderApi(path) == Len(path) >= 2 /\ path[1] = "api"

\* strings.HasPrefix(path, "/swagger") || strings.HasPrefix(path, "/static")
SwaggerOrStatic(path) == Len(path) >= 1 /\ path[1] \in {"swagger", "static"}

\* the Authorization header: absent, or a scheme and a token; a token is the
\* claims it carries and whether its signature verifies with JwtSecret
NoHeader == [present |-> FALSE]
Header(scheme, token) == [present |-> TRUE, scheme |-> scheme, token |-> token]
Token(signed, exp, user) == [signed |-> signed, exp |-> exp, user |-> user]

\* jwt.ParseWithClaims with StandardClaims.Valid: the signature verifies and the
\* token has not expired; the claims, or nil
NoClaims == [valid |-> FALSE]
ParseTokenUnsigned(token, at) ==
    IF at <= token.exp THEN [valid |-> TRUE, UserID |-> token.user] ELSE NoClaims
ParseToken(token, at) ==
    IF token.signed /\ at <= token.exp
    THEN [valid |-> TRUE, UserID |-> token.user]
    ELSE NoClaims

\* CorsHandler answers an OPTIONS request itself
CorsAnswers(method) == method = "OPTIONS"

\* the limiter refusing by the count alone
LimiterRefusesByCount(ip) ==
    /\ ip \in DOMAIN ipLastRequest
    /\ ipRequestCount[ip] > 10

\* the limiter refuses: a request of the IP was let through less than a second
\* ago and the count of the IP is above 10
LimiterRefuses(ip) ==
    /\ ip \in DOMAIN ipLastRequest
    /\ clock - ipLastRequest[ip] < Second
    /\ ipRequestCount[ip] > 10

\* the count the limiter stores for a request it lets through
LimiterCount(ip) ==
    IF ip \in DOMAIN ipLastRequest /\ clock - ipLastRequest[ip] < Second
    THEN ipRequestCount[ip] + 1
    ELSE 1

\* the requests that reached the limiter are counted up to 11, which stands for
\* more than 10
CountedSent(n) == IF n > 10 THEN n ELSE n + 1

Put(map, key, value) ==
    [ k \in DOMAIN map \cup {key} |-> IF k = key THEN value ELSE map[k] ]

\* JwtFilter: the status it writes, or "pass" when the request goes on to the router
JwtFilterStatus(path, auth, at) ==
    IF path \in whitelist THEN "pass"
    ELSE IF SwaggerOrStatic(path) THEN "pass"
    ELSE IF ~auth.present THEN "401"
    ELSE IF auth.scheme # "Bearer" THEN "401"
    ELSE IF ~ParseToken(auth.token, at).valid THEN "401"
    ELSE "pass"

\* ctx.Input.SetData("user_id", claims.UserID), read by GetUserID (0 when not set)
ContextUserID(path, auth, at) ==
    IF path \in whitelist \/ SwaggerOrStatic(path) THEN 0
    ELSE ParseToken(auth.token, at).UserID

\* one request through the filters, in the order main inserts them; a filter that
\* writes a response ends the request
ServeHTTP(ip, method, path, auth) ==
    LET args == [op |-> "ServeHTTP", ip |-> ip, method |-> method, path |-> path,
                 auth |-> auth, at |-> clock,
                 count |-> IF ip \in DOMAIN ipRequestCount THEN ipRequestCount[ip] ELSE 0]
        limited == UnderApi(path)
        jwt == IF UnderApi(path) THEN JwtFilterStatus(path, auth, clock) ELSE "pass"
        answer(status, user) ==
            resp' = [op |-> "ServeHTTP", status |-> status, data |-> user, args |-> args]
    IN
    /\ UNCHANGED <<tables, nextBudgetId, nextAlertId, nextBillId, nextCategoryId, now,
                   pc, req, clock, nextUserId>>
    /\ IF CorsAnswers(method)
       THEN /\ answer("200", 0)
            /\ UNCHANGED <<ipRequestCount, ipLastRequest, accepted, sent>>
       ELSE IF limited /\ LimiterRefuses(ip)
       THEN /\ answer("429", 0)
            /\ sent' = [sent EXCEPT ![ip][1] = CountedSent(@)]
            /\ UNCHANGED <<ipRequestCount, ipLastRequest, accepted>>
       ELSE /\ IF limited
               THEN /\ ipRequestCount' = Put(ipRequestCount, ip, LimiterCount(ip))
                    /\ ipLastRequest' = Put(ipLastRequest, ip, clock)
                    /\ accepted' = [accepted EXCEPT ![ip][1] = @ + 1]
                    /\ sent' = [sent EXCEPT ![ip][1] = CountedSent(@)]
               ELSE UNCHANGED <<ipRequestCount, ipLastRequest, accepted, sent>>
            /\ IF jwt # "pass" THEN answer(jwt, 0)
               ELSE answer("routed", IF UnderApi(path) THEN ContextUserID(path, auth, clock)
                                     ELSE 0)

\* half a second passes
AdvanceClock ==
    /\ clock < MaxClock
    /\ clock' = clock + 1
    /\ accepted' = [ip \in ClientIPs |->
                        [i \in 1..Second |-> IF i = 1 THEN 0 ELSE accepted[ip][i - 1]]]
    /\ sent' = [ip \in ClientIPs |->
                    [i \in 1..Second |-> IF i = 1 THEN 0 ELSE sent[ip][i - 1]]]
    /\ resp' = NoResp
    /\ UNCHANGED <<tables, nextBudgetId, nextAlertId, nextBillId, nextCategoryId, now,
                   pc, req, ipRequestCount, ipLastRequest, nextUserId>>

-----------------------------------------------------------------------------
(* Requests through the filters *)

FrontIPs == {"10.0.0.1"}
Paths == { <<"api", "user", "login">>, <<"api", "budgets">>, <<"api", "user", "profile">> }
\* no header, a header that is not Bearer, tokens signed by GenerateToken for a
\* user (expired or not), and a token whose signature does not verify
Headers ==
    {NoHeader}
    \cup { Header("Basic", Token(TRUE, MaxClock, 1)) }
    \cup { Header("Bearer", Token(TRUE, e, u)) : e \in {1, MaxClock}, u \in Users }
    \cup { Header("Bearer", Token(FALSE, MaxClock, u)) : u \in {0, 1} }

NextFront ==
    \/ \E ip \in FrontIPs, m \in {"GET", "OPTIONS"}, path \in Paths, auth \in Headers :
            ServeHTTP(ip, m, path, auth)
    \/ AdvanceClock

SpecFront == Init /\ [][NextFront]_vars

\* the request carries a valid token: a Bearer header whose token is signed and
\* not expired when the request arrives
Authenticated(args) ==
    /\ args.auth.present
    /\ args.auth.scheme = "Bearer"
    /\ args.auth.token.signed
    /\ args.at <= args.auth.token.exp

Guarded(args) == UnderApi(args.path) /\ args.path \notin whitelist

\* C18 as stated: a request for a guarded path without a valid token is answered
\* 401, and a request is routed only with the user id of its valid token, never 0
C18_Unauthenticated401 ==
    (resp.op = "ServeHTTP" /\ Guarded(resp.args)) =>
        /\ ~Authenticated(resp.args) => resp.status = "401"
        /\ resp.status = "routed" =>
                /\ Authenticated(resp.args)
                /\ resp.data = resp.args.auth.token.user
                /\ resp.data # 0

\* C18: a request for a guarded path without a valid token is never routed; it is
\* answered 401 unless CorsHandler answered it (OPTIONS, 200) or RateLimiter
\* refused it (429) before JwtFilter ran; a request is routed only with the user
\* id of its valid token, never 0
C18_UnauthenticatedNeverRouted ==
    (resp.op = "ServeHTTP" /\ Guarded(resp.args)) =>
        /\ ~Authenticated(resp.args) =>
                /\ resp.status \in {"401", "429", "200"}
                /\ resp.status = "200" => resp.args.method = "OPTIONS"
                /\ (resp.args.method # "OPTIONS" /\ resp.status # "429")
                        => resp.status = "401"
        /\ resp.status = "routed" =>
                /\ Authenticated(resp.args)
                /\ resp.data = resp.args.auth.token.user
                /\ resp.data # 0

\* a request with an expired token was answered 401, half a second after the
\* limiter let requests of the same IP through
C18_Witness ==
    /\ resp.op = "ServeHTTP"
    /\ Guarded(resp.args)
    /\ resp.args.auth.present
    /\ resp.args.auth.scheme = "Bearer"
    /\ resp.args.auth.token.signed
    /\ resp.args.at > resp.args.auth.token.exp
    /\ resp.status = "401"
    /\ accepted[resp.args.ip][2] > 0

RECURSIVE SumSeq(_)
SumSeq(seq) == IF seq = <<>> THEN 0 ELSE Head(seq) + SumSeq(Tail(seq))

\* C19: in every window of one second the limiter lets at most 10 requests of a
\* client IP through
C19_AtMostTenPerSecond ==
    \A ip \in ClientIPs : SumSeq(accepted[ip]) <= 10

-----------------------------------------------------------------------------
(* Concurrent CreateCategory and UpdateCategory requests of one user *)

RaceCategoryIds == {FoodOf(1), ShoppingOf(1), NewCategoryId}

NextCatRace ==
    \E p \in Procs :
        \/ \E n \in CategoryNames, t \in CategoryTypes :
                CreateCategoryCheck(p, 1, n, t)
        \/ CreateCategoryInsert(p)
        \/ \E id \in RaceCategoryIds, n \in CategoryNames, t \in CategoryTypes :
                UpdateCategoryCheck(p, id, 1, n, t)
        \/ UpdateCategoryExec(p)

SpecCatRace == Init /\ [][NextCatRace]_vars

NoDuplicateCategory(rows) ==
    \A c1, c2 \in rows :
        (c1.user = c2.user /\ c1.name = c2.name /\ c1.type = c2.type) => c1.id = c2.id

\* the request answered would make a second category of its user with its
\* (name, type): another row than the one it updates has them already
WouldDuplicate(args) ==
    CategoryNameExists(args.user, args.name, args.type,
                       IF args.op = "UpdateCategory" THEN args.id ELSE 0)

\* C20: no two categories of one user ever share (name, type), and a
\* CreateCategory or UpdateCategory that would make such a pair fails and leaves
\* the categories as they were, however the requests interleave their existence
\* check and their write
C20_CategoryNameTypeUnique ==
    [][ /\ NoDuplicateCategory(categories) /\ NoDuplicateCategory(categories')
        /\ (resp'.op \in {"CreateCategory", "UpdateCategory"} /\ WouldDuplicate(resp'.args))
                => (resp'.status # "ok" /\ categories' = categories) ]_vars

\* an UpdateCategory passed its existence check, a CreateCategory of the same
\* (name, type) then inserted its row, and the UPDATE was refused by the unique key
C20_Witness ==
    /\ resp.op = "UpdateCategory"
    /\ resp.status = "dup_key"
    /\ \E c \in categories :
            /\ c.id = NewCategoryId
            /\ c.user = resp.args.user /\ c.name = resp.args.name /\ c.type = resp.args.type
    /\ \E c \in categories :
            c.id = resp.args.id /\ (c.name # resp.args.name \/ c.type # resp.args.type)

-----------------------------------------------------------------------------
(* CheckBudgetAlerts over budgets of several months and alerts of both users *)

TwoMonths == {1, 2}
MidMonth == { [m |-> 1, d |-> 15], [m |-> 2, d |-> 15] }
HalfThreshold == {50}

NextCheckMonths ==
    \E p \in Single :
        \/ \E u \in Users, a \in CreateAmounts, m \in TwoMonths :
                CreateBudgetCheck(p, u, NullCategory, a, m)
        \/ CreateBudgetInsert(p)
        \/ \E u \in Users, a \in BillAmounts, d \in MidMonth :
                CreateBillCheck(p, u, FoodOf(u), a, "expense", d)
        \/ CreateBillInsert(p)
        \/ \E u \in Users, b \in BudgetIds, t \in HalfThreshold, act \in BOOLEAN :
                CreateBudgetAlertCheck(p, u, b, t, act)
        \/ CreateBudgetAlertInsert(p)
        \/ \E u \in Users : CheckLoadBudgets(p, u)
        \/ CheckEvalAlerts(p)
        \/ Tick

SpecCheckMonths == Init /\ [][NextCheckMonths]_vars

\* C21: every record CheckAlerts(u) returns is of an alert that is active and
\* owned by u, on a budget whose month is the wall-clock month the call read:
\* inactive alerts, alerts of other users and alerts on budgets of other months
\* are not returned, whatever the usage of their budget
C21_OnlyActiveOwnCurrentMonth ==
    resp.op = "CheckBudgetAlerts" =>
        \A i \in 1..Len(resp.data) :
            \E a \in alerts, b \in budgets :
                /\ a.id = resp.data[i].alert_id
                /\ a.active
                /\ a.user = resp.args.user
                /\ b.id = a.budget
                /\ b.month.m = resp.args.month

\* CheckAlerts returns one record while another active alert of the caller, on a
\* budget of the following month that has reached the threshold too, is left out
C21_Witness ==
    /\ resp.op = "CheckBudgetAlerts"
    /\ Len(resp.data) = 1
    /\ \E a \in alerts, b \in budgets :
        /\ a.active /\ a.user = resp.args.user
        /\ a.id # resp.data[1].alert_id
        /\ b.id = a.budget
        /\ b.month.m = resp.args.month + 1
        /\ DerivedPctAtLeast(b, a.threshold)

-----------------------------------------------------------------------------
(* ListAlerts over the alerts of two budgets *)

\* budget_id of the query string: none, or the id of one of the budgets
NextListAlerts ==
    \E p \in Single :
        \/ \E u \in Users, a \in CreateAmounts, m \in TwoMonths :
                CreateBudgetCheck(p, u, NullCategory, a, m)
        \/ CreateBudgetInsert(p)
        \/ \E u \in Users, b \in BudgetIds, t \in {50, 80} :
                CreateBudgetAlertCheck(p, u, b, t, TRUE)
        \/ CreateBudgetAlertInsert(p)
        \/ \E u \in Users, q \in {"", "1", "2"} : ListAlerts(p, u, q)

SpecListAlerts == Init /\ [][NextListAlerts]_vars

\* C22: ListAlerts with a budget_id in the query returns exactly the caller's
\* alerts of that budget, without one it returns all the caller's alerts, and in
\* both cases the list is ordered by threshold
C22_ListAlertsOfBudget ==
    resp.op = "ListAlerts" =>
        LET q == resp.args.query
            u == resp.args.user
        IN
        /\ resp.status = "ok"
        /\ \A i, j \in 1..Len(resp.data) :
                i < j => resp.data[i].threshold <= resp.data[j].threshold
        /\ Records(resp.data) =
                IF q = "" THEN { a \in alerts : a.user = u }
                ELSE { a \in alerts : a.user = u /\ a.budget = ParseUint(q) }
        /\ Len(resp.data) = Cardinality(Records(resp.data))

-----------------------------------------------------------------------------
(* Concurrent Register and UpdateProfile requests *)

\* the username and email of the Register requests: two free usernames with the
\* same free email and a username in use, and a third free username with an
\* email of its own
RivalRegistrations ==
    { [username |-> "eve", email |-> "eve@x.io"],
      [username |-> "fay", email |-> "eve@x.io"],
      [username |-> "ann", email |-> "fay@x.io"] }
Registrations == RivalRegistrations \cup { [username |-> "gil", email |-> "gil@x.io"] }

NextRegister ==
    \E p \in Procs :
        \/ \E n \in Registrations : CreateUserCheckUsername(p, n.username, n.email)
        \/ CreateUserCheckEmail(p)
        \/ \E ok \in BOOLEAN : CreateUserBegin(p, ok)
        \/ \E ok \in BOOLEAN : CreateUserInsertUser(p, ok)
        \/ \E ok \in BOOLEAN : CreateUserInsertCategory(p, ok)
        \/ \E ok \in BOOLEAN : CreateUserCommit(p, ok)

SpecRegister == Init /\ [][NextRegister]_vars

\* the profiles UpdateProfile writes, of a user registered from the start and of
\* the first one a request registers: the username of one Register request with the
\* email of user 1, and the username of user 1 with the email of that request
Profiles ==
    { [username |-> "eve", email |-> "ann@x.io"],
      [username |-> "ann", email |-> "eve@x.io"] }

NextUsers ==
    \E p \in Procs :
        \/ \E n \in RivalRegistrations : CreateUserCheckUsername(p, n.username, n.email)
        \/ CreateUserCheckEmail(p)
        \/ CreateUserBegin(p, TRUE)
        \/ CreateUserInsertUser(p, TRUE)
        \/ CreateUserInsertCategory(p, TRUE)
        \/ \E ok \in BOOLEAN : CreateUserCommit(p, ok)
        \/ \E id \in {1, NumUsers + 1}, n \in Profiles : UpdateUser(p, id, n.username, n.email)

SpecUsers == Init /\ [][NextUsers]_vars

\* the users registered by a request, and every user id a category row carries
NewUserIds == ({ x.id : x \in users } \cup { c.user : c \in categories }) \ Users

CategoriesOfUser(userID, type) == { c \in categories : c.user = userID /\ c.type = type }

\* C23: whatever statement of CreateUser fails, a user CreateUser registered is
\* stored together with its 7 default categories (4 expense, 3 income), and
\* no category row exists of a user that is not stored
C23_CreateUserAllOrNothing ==
    \A id \in NewUserIds :
        IF HasId(users, id)
        THEN /\ Cardinality(CategoriesOfUser(id, "expense")) = 4
             /\ Cardinality(CategoriesOfUser(id, "income")) = 3
        ELSE CategoriesOfUser(id, "expense") \cup CategoriesOfUser(id, "income") = {}

\* a CreateUser failed after it had inserted its users row and some of the
\* default categories, while a user registered earlier is stored
C23_Witness ==
    /\ resp.op = "CreateUser"
    /\ resp.status = "db_error"
    /\ "cats" \in DOMAIN resp.args
    /\ Len(resp.args.cats) \in 1..(NumDefault - 1)
    /\ ~HasId(users, resp.args.id)
    /\ \E x \in users : x.id \notin Users

NoDuplicateUser(rows) ==
    \A x, y \in rows : (x.username = y.username \/ x.email = y.email) => x.id = y.id

\* C24: no two users share a username or an email, whatever Register and
\* UpdateProfile requests run and however they interleave, and a Register that
\* fails leaves users and categories as they were
C24_UsernameAndEmailUnique ==
    [][ /\ NoDuplicateUser(users) /\ NoDuplicateUser(users')
        /\ (resp'.op = "CreateUser" /\ resp'.status # "ok")
                => (users' = users /\ categories' = categories) ]_vars

\* a Register passed both existence checks and had its INSERT refused by a
\* unique key, a concurrent Register with the same email having committed
C24_Witness ==
    /\ resp.op = "CreateUser"
    /\ resp.status = "dup_key"
    /\ \E x \in users :
            /\ x.id \notin Users
            /\ x.email = resp.args.email
            /\ x.username # resp.args.username

-----------------------------------------------------------------------------
(* A client that keeps to ten requests a second *)

\* a request is sent only when fewer than 10 requests of the IP reached the
\* limiter in the last second, this one not counted
NextSteady ==
    \/ \E ip \in FrontIPs, path \in Paths, auth \in Headers :
            /\ SumSeq(sent[ip]) < 10
            /\ ServeHTTP(ip, "GET", path, auth)
    \/ AdvanceClock

SpecSteady == Init /\ [][NextSteady]_vars

\* C25: a client IP that sends at most 10 requests in every window of one second
\* is never answered 429
C25_SteadyClientNeverRefused ==
    resp.op = "ServeHTTP" => resp.status # "429"

\* the limiter ran for the request answered
Limited(args) == UnderApi(args.path) /\ ~CorsAnswers(args.method)

\* C26: a request answered 429 leaves the count and the last-request time of its
\* IP as they were, and a request of an IP of which the limiter let none through
\* in the last second is let through and sets the count of the IP to 1
C26_RefusalKeepsStateAndEndsAfterOneSecond ==
    [][ (resp'.op = "ServeHTTP" /\ Limited(resp'.args)) =>
            LET ip == resp'.args.ip IN
            /\ resp'.status = "429" =>
                    /\ ipRequestCount' = ipRequestCount
                    /\ ipLastRequest' = ipLastRequest
            /\ SumSeq(accepted[ip]) = 0 =>
                    /\ resp'.status # "429"
                    /\ ipRequestCount'[ip] = 1
                    /\ ipLastRequest'[ip] = clock ]_vars

\* an IP at its limit, whose next request within the second would be refused,
\* has a request let through one second after the last one let through, and its
\* count is 1 again
C26_Witness ==
    /\ resp.op = "ServeHTTP"
    /\ Limited(resp.args)
    /\ resp.args.count = 11
    /\ resp.status # "429"
    /\ resp.args.at = clock
    /\ ipRequestCount[resp.args.ip] = 1
    /\ SumSeq(accepted[resp.args.ip]) = 1

-----------------------------------------------------------------------------
(* CheckBudgetAlerts while the budgets are updated *)

NextCheckRace ==
    \E p \in Procs :
        \/ \E a \in CreateAmounts, m \in FirstMonth :
                CreateBudgetCheck(p, 1, NullCategory, a, m)
        \/ CreateBudgetInsert(p)
        \/ \E a \in BillAmounts, d \in FirstDay :
                CreateBillCheck(p, 1, FoodOf(1), a, "expense", d)
        \/ CreateBillInsert(p)
        \/ \E b \in BudgetIds, t \in HalfThreshold :
                CreateBudgetAlertCheck(p, 1, b, t, TRUE)
        \/ CreateBudgetAlertInsert(p)
        \/ \E id \in BudgetIds, a \in RaisedAmounts, m \in FirstMonth :
                UpdateBudgetCheck(p, id, 1, NullCategory, a, m)
        \/ UpdateBudgetExec(p)
        \/ CheckLoadBudgets(p, 1)
        \/ CheckEvalAlerts(p)

SpecCheckRace == Init /\ [][NextCheckRace]_vars

\* C27: in every record CheckAlerts returns, used_percent is
\* used_amount / budget_amount * 100 when budget_amount > 0, also when an
\* UpdateBudget of the budget commits between the two loads of CheckAlerts
C27_RecordFiguresConsistent ==
    resp.op = "CheckBudgetAlerts" =>
        \A i \in 1..Len(resp.data) :
            LET rec == resp.data[i] IN
            rec.budget_amount > 0 =>
                rec.used_percent.num * rec.budget_amount
                    = rec.used_amount * 100 * rec.used_percent.den

-----------------------------------------------------------------------------
(* Alerts written while their budgets are updated and deleted *)

RefThresholds == {50}

NextAlertRefs ==
    \E p \in Procs :
        \/ \E u \in Users, a \in CreateAmounts, m \in FirstMonth :
                CreateBudgetCheck(p, u, NullCategory, a, m)
        \/ CreateBudgetInsert(p)
        \/ \E u \in Users, b \in BudgetIds, t \in RefThresholds :
                CreateBudgetAlertCheck(p, u, b, t, TRUE)
        \/ CreateBudgetAlertInsert(p)
        \/ \E id \in AlertIds, u \in Users, b \in BudgetIds, t \in RefThresholds :
                UpdateBudgetAlertCheck(p, id, u, b, t, TRUE)
        \/ UpdateBudgetAlertExec(p)
        \/ \E id \in BudgetIds, u \in Users, a \in RaisedAmounts, m \in FirstMonth :
                UpdateBudgetCheck(p, id, u, NullCategory, a, m)
        \/ UpdateBudgetExec(p)
        \/ \E id \in BudgetIds, u \in Users : DeleteBudgetCheck(p, id, u)
        \/ \E ok \in BOOLEAN : DeleteBudgetBegin(p, ok)
        \/ \E ok \in BOOLEAN : DeleteBudgetExecAlerts(p, ok)
        \/ \E ok \in BOOLEAN : DeleteBudgetExecBudget(p, ok)
        \/ \E ok \in BOOLEAN : DeleteBudgetCommit(p, ok)

SpecAlertRefs == Init /\ [][NextAlertRefs]_vars

\* C28: every stored alert references a stored budget of the alert's user,
\* whatever CreateAlert, UpdateAlert, UpdateBudget and DeleteBudget requests run
\* and however they interleave
C28_AlertReferencesOwnBudget ==
    \A a \in alerts : \E b \in budgets : b.id = a.budget /\ b.user = a.user

\* an UpdateAlert passed its checks for a budget that a DeleteBudget then removed,
\* and its UPDATE was refused: the alert stays on its budget
C28_Witness ==
    /\ resp.op = "UpdateBudgetAlert"
    /\ resp.status = "db_error"
    /\ ~HasId(budgets, resp.args.budget)
    /\ \E a \in alerts :
            /\ a.id = resp.args.id /\ a.user = resp.args.user
            /\ a.budget # resp.args.budget

-----------------------------------------------------------------------------
(* DeleteCategory beside requests that reference the category *)

NextCatDelete ==
    \E p \in Procs :
        \/ \E id \in OwnCategoryIds : DeleteCategoryCheck(p, id, 1)
        \/ DeleteCategoryExec(p)
        \/ \E c \in OwnCats, a \in BillAmounts, d \in FirstDay :
                CreateBillCheck(p, 1, c, a, "expense", d)
        \/ CreateBillInsert(p)
        \/ \E id \in BillIds, c \in OwnCats, a \in BillAmounts, d \in FirstDay :
                UpdateBillCheck(p, id, 1, c, a, "expense", d)
        \/ UpdateBillExec(p)
        \/ \E id \in BillIds : DeleteBill(p, id, 1)
        \/ \E c \in OwnCats, a \in CreateAmounts, m \in FirstMonth :
                CreateBudgetCheck(p, 1, c, a, m)
        \/ CreateBudgetInsert(p)
        \/ \E id \in BudgetIds, c \in OwnCats, a \in RaisedAmounts, m \in FirstMonth :
                UpdateBudgetCheck(p, id, 1, c, a, m)
        \/ UpdateBudgetExec(p)

SpecCatDelete == Init /\ [][NextCatDelete]_vars

\* C29: however DeleteCategory interleaves with the requests that reference its
\* category, a stored bill, whose creation was reported successful, leaves the
\* table only by a DeleteBill of it, and a budget of a category becomes a total
\* budget only by an UpdateBudget of it
C29_ReferencesSurviveDeleteCategory ==
    [][ /\ \A x \in bills :
            ~HasId(bills', x.id)
                => (resp'.op = "DeleteBill" /\ resp'.status = "ok" /\ resp'.args.id = x.id)
        /\ \A b \in budgets, c \in budgets' :
            (c.id = b.id /\ b.cat # NullCategory /\ c.cat = NullCategory)
                => (resp'.op = "UpdateBudget" /\ resp'.status = "ok" /\ resp'.args.id = b.id)
      ]_vars

-----------------------------------------------------------------------------
(* GetBudgets over bills of any amount *)

\* amount of a bill is a float64 of the request body, stored as it comes
NextSigned ==
    \E p \in Single :
        \/ \E c \in CreateCats, a \in CreateAmounts, m \in FirstMonth :
                CreateBudgetCheck(p, 1, c, a, m)
        \/ CreateBudgetInsert(p)
        \/ \E c \in {FoodOf(1), ShoppingOf(1)}, a \in {0 - 80, 50}, d \in FirstDay :
                CreateBillCheck(p, 1, c, a, "expense", d)
        \/ CreateBillInsert(p)
        \/ \E m \in FirstMonth : GetBudgets(p, 1, m)

SpecSigned == Init /\ [][NextSigned]_vars

\* C30: in the budgets GetBudgets reports for a user and a month, UsedAmount of
\* the total budget is at least UsedAmount of every category budget, and no
\* UsedAmount is negative
C30_TotalCoversCategories ==
    resp.op = "GetBudgets" =>
        /\ \A B \in ReturnedBudgets : B.UsedAmount >= 0
        /\ \A T, C \in ReturnedBudgets :
                (T.CategoryID = NullCategory /\ C.CategoryID # NullCategory)
                    => T.UsedAmount >= C.UsedAmount

====
